---- MODULE Spec2Model ----
(***************************************************************************)
(* Tabular-data ingestion of the heterogeneous-catalysis schema package:   *)
(* CatalystTests.normalize (catalyst_measurement.py) and                   *)
(* CatalyticReactionCleanData.normalize (schema.py), with the helpers they *)
(* call, and CatalystSample.normalize (schema.py).                         *)
(*                                                                         *)
(* Encoding.  A Python str is a sequence of one-character strings, so that *)
(* split, "in", replace, endswith and splitext are computed.  A float is   *)
(* Num(v) = <<v>> or NaN = <<>>.  An optional value is None = <<>> or      *)
(* Some(v) = <<v>>.  Temperatures are held in hundredths of a degree so    *)
(* that the 273.15 offset is exact; every other magnitude is the cell      *)
(* value in the unit the quantity declares.                                *)
(***************************************************************************)
EXTENDS Integers, Sequences, FiniteSets, TLC

VARIABLES
    cls,        \* schema class of the entry being normalized
    env,        \* external collaborators: context kind, name resolution, search
    entry,      \* the entry's sections (self.*)
    archive,    \* the shared results tree (archive.results)
    locals,     \* the locals of the last normalize call that the claims read
    call,       \* the last call: its input file and how it ended
    log,        \* logger.warn messages of the last call
    calls       \* number of normalize calls made so far

vars == <<cls, env, entry, archive, locals, call, log, calls>>

-----------------------------------------------------------------------------
(* Bounds of the model *)

MaxCols == 2
MaxRows == 2
MaxCalls == 2

-----------------------------------------------------------------------------
(* Options and floats *)

None == <<>>
Some(v) == <<v>>
Get(o) == o[1]

NaN == <<>>
Num(v) == <<v>>
IsNaN(f) == f = NaN

\* np.nan_to_num on a numeric array: NaN becomes 0.0
NanToNum(arr) == [i \in 1..Len(arr) |-> IF IsNaN(arr[i]) THEN Num(0) ELSE arr[i]]

\* np.nan_to_num maps +-inf to the largest finite float; FloatMax stands for it
FloatMax == 1000000000

Max(a, b) == IF a > b THEN a ELSE b

\* a local name: v is evaluated once and F is applied to its value
With(v, F(_)) == CHOOSE y \in { F(x) : x \in {v} } : TRUE

-----------------------------------------------------------------------------
(* Python str operations on character sequences *)

RECURSIVE SplitAcc(_, _, _, _, _)
SplitAcc(s, sep, i, cur, out) ==
    IF i > Len(s) THEN Append(out, cur)
    ELSE IF s[i] = sep THEN SplitAcc(s, sep, i + 1, <<>>, Append(out, cur))
    ELSE SplitAcc(s, sep, i + 1, Append(cur, s[i]), out)

\* str.split(sep) with a one-character separator
Split(s, sep) == SplitAcc(s, sep, 1, <<>>, <<>>)

\* sub in s
Contains(sub, s) ==
    \E i \in 0..(Len(s) - Len(sub)) : SubSeq(s, i + 1, i + Len(sub)) = sub

\* s.endswith(suf)
EndsWith(s, suf) ==
    Len(s) >= Len(suf) /\ SubSeq(s, Len(s) - Len(suf) + 1, Len(s)) = suf

\* s.replace(a, b) for one-character a, b
Replace(s, a, b) == [i \in 1..Len(s) |-> IF s[i] = a THEN b ELSE s[i]]

\* s.rfind(ch), 1-based, 0 when absent
RFind(s, ch) ==
    IF \E i \in 1..Len(s) : s[i] = ch
    THEN CHOOSE i \in 1..Len(s) : s[i] = ch /\ \A j \in (i + 1)..Len(s) : s[j] # ch
    ELSE 0

\* os.path.splitext(p)[-1]
SplitExt(p) ==
    LET sep == RFind(p, "/")
        dot == RFind(p, ".")
    IN IF dot > sep /\ (\E k \in (sep + 1)..(dot - 1) : p[k] # ".")
       THEN SubSeq(p, dot, Len(p))
       ELSE <<>>

Sp == <<" ">>
Hdr2(a, b) == a \o Sp \o b
Hdr3(a, b, c) == a \o Sp \o b \o Sp \o c

-----------------------------------------------------------------------------
(* String literals of the source *)

PCT == <<"(", "%", ")">>
TOK_G == <<"(", "g", ")">>
TOK_MG == <<"m", "g">>
TOK_K == <<"K">>
EXT_CSV == <<".", "c", "s", "v">>
EXT_XLSX == <<".", "x", "l", "s", "x">>
P_step == <<"s", "t", "e", "p">>
P_x == <<"x">>
P_mass == <<"m", "a", "s", "s">>
P_set_temperature == <<"s", "e", "t", "_", "t", "e", "m", "p", "e", "r", "a", "t", "u", "r", "e">>
P_temperature == <<"t", "e", "m", "p", "e", "r", "a", "t", "u", "r", "e">>
P_TOS == <<"T", "O", "S">>
P_C_balance == <<"C", "-", "b", "a", "l", "a", "n", "c", "e">>
P_GHSV == <<"G", "H", "S", "V">>
P_Vflow == <<"V", "f", "l", "o", "w">>
P_set_pressure == <<"s", "e", "t", "_", "p", "r", "e", "s", "s", "u", "r", "e">>
P_pressure == <<"p", "r", "e", "s", "s", "u", "r", "e">>
P_r == <<"r">>
P_x_p == <<"x", "_", "p">>
P_x_r == <<"x", "_", "r">>
P_y == <<"y">>
P_S_p == <<"S", "_", "p">>
K_FHI_ID == <<"F", "H", "I", "-", "I", "D">>
K_sample_id == <<"s", "a", "m", "p", "l", "e", "_", "i", "d">>
K_catalyst == <<"c", "a", "t", "a", "l", "y", "s", "t">>
N_CO == <<"C", "O">>
N_CO2 == <<"C", "O", "2">>
N_carbon_monoxide == <<"c", "a", "r", "b", "o", "n", " ", "m", "o", "n", "o", "x", "i", "d", "e">>
N_carbon_dioxide == <<"c", "a", "r", "b", "o", "n", " ", "d", "i", "o", "x", "i", "d", "e">>
N_n_Butene == <<"n", "-", "B", "u", "t", "e", "n", "e">>
N_1_butene == <<"1", "-", "b", "u", "t", "e", "n", "e">>
N_MAN == <<"M", "A", "N">>
N_maleic_anhydride == <<"m", "a", "l", "e", "i", "c", " ", "a", "n", "h", "y", "d", "r", "i", "d", "e">>

\* Reagent.normalize: names left as they are, with no lookup
SkipNames ==
    { <<"C", "5", "-", "1">>, <<"C", "6", "-", "1">>, <<"n", "C", "5">>,
      <<"n", "C", "6">>, <<"U", "n", "k", "n", "o", "w", "n">>,
      <<"i", "n", "e", "r", "t">>, <<"P", ">", "=", "5", "C">> }

\* normalize: names never written to the results tree as reactants
InertNames ==
    { <<"H", "e">>, <<"h", "e", "l", "i", "u", "m">>, <<"A", "r">>,
      <<"a", "r", "g", "o", "n">>, <<"i", "n", "e", "r", "t">> }

-----------------------------------------------------------------------------
(* The table read from the data file: a sequence of [name, data] columns,  *)
(* all of the same length, with distinct names.                            *)

HasColumn(table, key) == \E i \in 1..Len(table) : table[i].name = key
Column(table, key) == table[CHOOSE i \in 1..Len(table) : table[i].name = key].data

\* DataFrame.dropna(axis=1, how='all'): columns whose cells are all NaN go
DropNa(table) ==
    SelectSeq(table, LAMBDA c : \E i \in 1..Len(c.data) : ~IsNaN(c.data[i]))

ScaleAll(arr, k) == [i \in 1..Len(arr) |-> IF IsNaN(arr[i]) THEN NaN ELSE Num(arr[i][1] * k)]

-----------------------------------------------------------------------------
(* Units.  The unit a Quantity declares is the unit its magnitude is kept  *)
(* in; a bare array assigned to it is taken to be in that unit already.    *)

CelsiusOffset == 27315

SetTemperatureUnit == "K"
TemperatureUnit == "degC"
CatalystMassUnit == "mg"

\* magnitude, in hundredths of a degree of the declared unit, of one value
\* given in unit `given` ("none" for a bare number)
TempTo(declared, given, f) ==
    IF IsNaN(f) THEN NaN
    ELSE IF given = "none" \/ given = declared THEN Num(100 * f[1])
    ELSE IF given = "degC" /\ declared = "K" THEN Num(100 * f[1] + CelsiusOffset)
    ELSE Num(100 * f[1] - CelsiusOffset)

StoreTemp(declared, given, arr) == [i \in 1..Len(arr) |-> TempTo(declared, given, arr[i])]

\* a stored temperature read in kelvin (hundredths)
InKelvin(declared, arr) ==
    [i \in 1..Len(arr) |->
        IF IsNaN(arr[i]) THEN NaN
        ELSE IF declared = "K" THEN arr[i] ELSE Num(arr[i][1] + CelsiusOffset)]

\* magnitude in the declared mass unit of one value given in `given`
MassTo(declared, given, f) ==
    IF IsNaN(f) THEN NaN
    ELSE IF given = declared THEN f
    ELSE IF given = "g" /\ declared = "mg" THEN Num(f[1] * 1000)
    ELSE Num(f[1] \div 1000)

-----------------------------------------------------------------------------
(* Sections *)

NewReagent(name, gas_in) ==
    [name |-> name, gas_concentration_in |-> gas_in, pure_component |-> None]

NewReactant(name) ==
    [name |-> name, gas_concentration_in |-> None, gas_concentration_out |-> None,
     conversion |-> None, conversion_type |-> None,
     conversion_product_based |-> None, conversion_reactant_based |-> None]

NewProduct(name) ==
    [name |-> name, gas_concentration_out |-> None, selectivity |-> None,
     pure_component |-> None]

NewRates(name, rate) == [name |-> name, reaction_rate |-> Some(rate)]

NewReactionConditions ==
    [set_temperature |-> None, set_pressure |-> None, set_total_flow_rate |-> None,
     weight_hourly_space_velocity |-> None, gas_hourly_space_velocity |-> None,
     runs |-> None, time_on_stream |-> None, reagents |-> <<>>]

NewCatalyticReactionData ==
    [temperature |-> None, pressure |-> None, runs |-> None, time_on_stream |-> None,
     c_balance |-> None, reactants_conversions |-> <<>>, rates |-> <<>>,
     products |-> <<>>, figures |-> <<>>]

NewReactorFilling == [catalyst_mass |-> None]

\* the locals of normalize before the column loop
NewScan ==
    [feed |-> NewReactionConditions, reactor_filling |-> NewReactorFilling,
     cat_data |-> NewCatalyticReactionData,
     reagents |-> <<>>, reagent_names |-> <<>>, products |-> <<>>,
     product_names |-> <<>>, conversions |-> <<>>, conversion_names |-> <<>>,
     rates |-> <<>>, number_of_runs |-> 0, err |-> None]

-----------------------------------------------------------------------------
(* The column loop of normalize.  A branch that raises sets err; nothing in *)
(* the loop catches it, so the remaining branches and columns do nothing.   *)

Raise(a, kind) == [a EXCEPT !.err = Some(kind)]

\* for i, p in enumerate(lst): if p.name == name: found = lst.pop(i)
\* (no break: the index moves on over the shortened list)
RECURSIVE PopEach(_, _, _, _)
PopEach(lst, name, i, found) ==
    IF i > Len(lst) THEN [rest |-> lst, found |-> found]
    ELSE IF lst[i].name = name
         THEN With(SubSeq(lst, 1, i - 1) \o SubSeq(lst, i + 1, Len(lst)), LAMBDA rest :
                   PopEach(rest, name, i + 1, Some(lst[i])))
         ELSE PopEach(lst, name, i + 1, found)

\* the same loop with a break after the first pop
PopFirst(lst, name) ==
    IF \E i \in 1..Len(lst) : lst[i].name = name
    THEN LET i == CHOOSE k \in 1..Len(lst) :
                      lst[k].name = name /\ \A j \in 1..(k - 1) : lst[j].name # name
         IN [rest |-> SubSeq(lst, 1, i - 1) \o SubSeq(lst, i + 1, Len(lst)),
             found |-> Some(lst[i])]
    ELSE [rest |-> lst, found |-> None]

\* col_split[0] == 'step'
StepBranch(a, table) ==
    IF ~HasColumn(table, P_step) THEN Raise(a, "KeyError")
    ELSE [a EXCEPT !.feed.runs = Some(Column(table, P_step)),
                   !.cat_data.runs = Some(Column(table, P_step))]

\* a variant of the x branch that zeroes the NaN cells of the inlet fraction
ReagentBranchZeroed(a, sp, d) ==
    [a EXCEPT !.reagents = Append(@, NewReagent(sp[2], Some(NanToNum(d)))),
              !.reagent_names = Append(@, sp[2])]

\* col_split[0] == "x"
ReagentBranch(a, sp, d) ==
    [a EXCEPT !.reagents = Append(@, NewReagent(sp[2], Some(d))),
              !.reagent_names = Append(@, sp[2])]

\* a variant of the mass branch whose gram test lacks the parentheses
MassBranchLoose(a, sp, d) ==
    IF Contains(<<"g">>, sp[2])
    THEN [a EXCEPT !.reactor_filling.catalyst_mass =
                        Some(MassTo(CatalystMassUnit, "g", d[1]))]
    ELSE IF Contains(TOK_MG, sp[2])
    THEN [a EXCEPT !.reactor_filling.catalyst_mass =
                        Some(MassTo(CatalystMassUnit, "mg", d[1]))]
    ELSE a

\* col_split[0] == "mass"
MassBranch(a, sp, d) ==
    IF Contains(TOK_G, sp[2])
    THEN [a EXCEPT !.reactor_filling.catalyst_mass =
                        Some(MassTo(CatalystMassUnit, "g", d[1]))]
    ELSE IF Contains(TOK_MG, sp[2])
    THEN [a EXCEPT !.reactor_filling.catalyst_mass =
                        Some(MassTo(CatalystMassUnit, "mg", d[1]))]
    ELSE a

\* col_split[0] == "set_temperature"
SetTemperatureBranch(a, sp, d) ==
    [a EXCEPT !.feed.set_temperature =
        Some(StoreTemp(SetTemperatureUnit,
                       IF Contains(TOK_K, sp[2]) THEN "none" ELSE "degC",
                       NanToNum(d)))]

\* col_split[0] == "temperature"
TemperatureBranch(a, sp, d) ==
    [a EXCEPT !.cat_data.temperature =
        Some(StoreTemp(TemperatureUnit,
                       IF Contains(TOK_K, sp[2]) THEN "none" ELSE "degC",
                       NanToNum(d)))]

\* col_split[0] == "TOS"
TosBranch(a, d) ==
    [a EXCEPT !.cat_data.time_on_stream = Some(d), !.feed.time_on_stream = Some(d)]

\* col_split[0] == "r"
RateBranch(a, sp, d) == [a EXCEPT !.rates = Append(@, NewRates(sp[2], NanToNum(d)))]

\* col_split[0] == "x_p"
XpBranch(a, sp, d) ==
    LET v == NanToNum(d)
        fresh == [NewReactant(sp[2]) EXCEPT
                     !.conversion = Some(v),
                     !.conversion_type = Some("product-based conversion"),
                     !.conversion_product_based = Some(v)]
    IN With(PopEach(a.conversions, sp[2], 1, None), LAMBDA pop :
       LET base == IF pop.found = None THEN fresh ELSE Get(pop.found)
           conversion == [base EXCEPT
                             !.conversion_product_based = Some(v),
                             !.conversion = Some(v),
                             !.conversion_type = Some("product-based conversion")]
       IN [a EXCEPT !.conversion_names = Append(@, sp[2]),
                    !.conversions = Append(pop.rest, conversion)])

\* col_split[0] == "x_r"; the handler of KeyError looks up a second key, and
\* a KeyError raised there is not caught by the bare except beside it
XrBranch(a, sp, d, table) ==
    LET v == NanToNum(d)
        key1 == Hdr3(P_x, sp[2], PCT)
        key2 == Hdr2(P_x, sp[2])
        gas_in == IF HasColumn(table, key1) THEN NanToNum(Column(table, key1))
                  ELSE ScaleAll(NanToNum(Column(table, key2)), 100)
        fresh == [NewReactant(sp[2]) EXCEPT
                     !.conversion = Some(v),
                     !.conversion_type = Some("reactant-based conversion"),
                     !.conversion_reactant_based = Some(v),
                     !.gas_concentration_in = Some(gas_in)]
    IN IF ~HasColumn(table, key1) /\ ~HasColumn(table, key2) THEN Raise(a, "KeyError")
       ELSE With(PopEach(a.conversions, sp[2], 1, None), LAMBDA pop :
            LET conversion ==
                    IF pop.found = None THEN fresh
                    ELSE [Get(pop.found) EXCEPT !.conversion_reactant_based = Some(v)]
            IN [a EXCEPT !.conversions = Append(pop.rest, conversion)])

\* np.nan_to_num((1 - (out / inlet)) * 100) of one cell pair, in whole percent
ConversionFromOutlet(out, inlet) ==
    IF IsNaN(out) \/ IsNaN(inlet) THEN Num(0)
    ELSE IF inlet[1] = 0
         THEN (IF out[1] = 0 THEN Num(0)
               ELSE IF out[1] > 0 THEN Num(0 - FloatMax) ELSE Num(FloatMax))
    ELSE Num(((inlet[1] - out[1]) * 100) \div inlet[1])

\* col_split[0] == "y"
YBranch(a, sp, d, table) ==
    LET key1 == Hdr3(P_x, sp[2], PCT)
    IN IF \E i \in 1..Len(a.reagent_names) : a.reagent_names[i] = sp[2]
       THEN IF ~HasColumn(table, key1) THEN Raise(a, "KeyError")
            ELSE LET x == Column(table, key1)
                     conversion ==
                        [NewReactant(sp[2]) EXCEPT
                            !.gas_concentration_in = Some(NanToNum(x)),
                            !.gas_concentration_out = Some(NanToNum(d)),
                            !.conversion =
                                Some([i \in 1..Len(d) |-> ConversionFromOutlet(d[i], x[i])])]
                 IN [a EXCEPT !.conversions = Append(@, conversion)]
       ELSE [a EXCEPT
                !.products = Append(@, [NewProduct(sp[2]) EXCEPT
                                           !.gas_concentration_out = Some(NanToNum(d))]),
                !.product_names = Append(@, sp[2])]

\* col_split[0] == "S_p"
SpBranch(a, sp, d) ==
    LET pop == PopFirst(a.products, sp[2])
        base == IF pop.found = None THEN NewProduct(sp[2]) ELSE Get(pop.found)
        product == [base EXCEPT !.selectivity = Some(NanToNum(d))]
    IN [a EXCEPT !.products = Append(pop.rest, product),
                 !.product_names = Append(@, sp[2])]

\* a variant of the gate that lets every header through
PercentColumnAlways(sp) == TRUE

\* the gate before the x_p, x_r, y and S_p branches: the `continue` is
\* taken when there is no third token or it is not "(%)"
PercentColumn(sp) == Len(sp) >= 3 /\ sp[3] = PCT

\* a variant of the skip test that lets a header of one token through
ColumnSkippedIfEmpty(sp, d) == Len(d) < 1

\* `continue` for a column with no data point or a header of one token
ColumnSkipped(sp, d) == Len(d) < 1 \/ Len(sp) < 2

\* the body of `for col in data.columns`.  The tests on col_split[0] are
\* a run of ifs on one string against distinct literals, so at most one of
\* them holds; the last four are reached only when col_split[2] is "(%)".
ScanColumn(a, table, c) ==
    With(Split(table[c].name, " "), LAMBDA sp :
    LET d == table[c].data
    IN IF a.err # None \/ ColumnSkipped(sp, d) THEN a
       ELSE
       With([a EXCEPT !.number_of_runs = Max(@, Len(d))], LAMBDA a1 :
       LET pct == PercentColumn(sp)
       IN CASE sp[1] = P_step -> StepBranch(a1, table)
            [] sp[1] = P_x -> ReagentBranch(a1, sp, d)
            [] sp[1] = P_mass -> MassBranch(a1, sp, d)
            [] sp[1] = P_set_temperature -> SetTemperatureBranch(a1, sp, d)
            [] sp[1] = P_temperature -> TemperatureBranch(a1, sp, d)
            [] sp[1] = P_TOS -> TosBranch(a1, d)
            [] sp[1] = P_C_balance -> [a1 EXCEPT !.cat_data.c_balance = Some(NanToNum(d))]
            [] sp[1] = P_GHSV ->
                 [a1 EXCEPT !.feed.gas_hourly_space_velocity = Some(NanToNum(d))]
            [] sp[1] = P_Vflow -> [a1 EXCEPT !.feed.set_total_flow_rate = Some(NanToNum(d))]
            [] sp[1] = P_set_pressure -> [a1 EXCEPT !.feed.set_pressure = Some(NanToNum(d))]
            [] sp[1] = P_pressure -> [a1 EXCEPT !.cat_data.pressure = Some(NanToNum(d))]
            [] sp[1] = P_r -> RateBranch(a1, sp, d)
            [] sp[1] = P_x_p /\ pct -> XpBranch(a1, sp, d)
            [] sp[1] = P_x_r /\ pct -> XrBranch(a1, sp, d, table)
            [] sp[1] = P_y /\ pct -> YBranch(a1, sp, d, table)
            [] sp[1] = P_S_p /\ pct -> SpBranch(a1, sp, d)
            [] OTHER -> a1))

RECURSIVE ScanFrom(_, _, _)
ScanFrom(a, table, c) ==
    IF c > Len(table) THEN a
    ELSE With(ScanColumn(a, table, c), LAMBDA a2 : ScanFrom(a2, table, c + 1))

\* the whole loop over the columns left after dropna
Scan(table) == ScanFrom(NewScan, table, 1)

-----------------------------------------------------------------------------
(* Name normalization and the name-resolution collaborator *)

N_but_1_ene == <<"b", "u", "t", "-", "1", "-", "e", "n", "e">>
N_C4H8 == <<"C", "4", "H", "8">>

\* PubChemPureSubstanceSection(name=...).normalize: the external lookup.
\* mode "up" resolves the names it knows, "partial" returns the formula
\* without an IUPAC name, "down" (lookup failed) returns nothing.
PubChemLookup(name, mode) ==
    LET known == name \in {N_CO, N_CO2, N_1_butene}
        iupac == IF name = N_CO THEN N_carbon_monoxide
                 ELSE IF name = N_CO2 THEN N_carbon_dioxide ELSE N_but_1_ene
        formula == IF name = N_1_butene THEN N_C4H8 ELSE name
    IN [iupac_name |-> IF known /\ mode = "up" THEN Some(iupac) ELSE None,
        molecular_formula |-> IF known /\ mode # "down" THEN Some(formula) ELSE None]

\* a variant of the alias table that replaces the first underscore only
AliasNameOnce(name) ==
    IF name \in SkipNames THEN name
    ELSE IF name = N_n_Butene THEN N_1_butene
    ELSE IF name = N_MAN THEN N_maleic_anhydride
    ELSE IF Contains(<<"_">>, name)
    THEN [i \in 1..Len(name) |->
            IF name[i] = "_" /\ \A j \in 1..(i - 1) : name[j] # "_" THEN " " ELSE name[i]]
    ELSE name

\* the alias table of Reagent.normalize
AliasName(name) ==
    IF name \in SkipNames THEN name
    ELSE IF name = N_n_Butene THEN N_1_butene
    ELSE IF name = N_MAN THEN N_maleic_anhydride
    ELSE IF Contains(<<"_">>, name) THEN Replace(name, "_", " ")
    ELSE name

\* Reagent.normalize (Product.normalize only calls it), on a section whose
\* name is set
ReagentNormalize(r, mode) ==
    IF r.name \in SkipNames THEN r
    ELSE
    LET name == AliasName(r.name)
        pc1 == IF name # <<>> /\ r.pure_component = None
               THEN Some(PubChemLookup(name, mode))
               ELSE r.pure_component
        pc2 == IF pc1 # None /\ Get(pc1).iupac_name = None
                  /\ Get(pc1).molecular_formula = Some(N_CO2)
               THEN Some([Get(pc1) EXCEPT !.iupac_name = Some(N_carbon_dioxide)])
               ELSE pc1
        pc3 == IF name = N_CO \/ name = N_carbon_monoxide
               THEN Some([Get(pc2) EXCEPT !.iupac_name = Some(N_carbon_monoxide),
                                          !.molecular_formula = Some(N_CO)])
               ELSE pc2
    IN [r EXCEPT !.name = name, !.pure_component = pc3]

NormalizeAll(rs, mode) == [i \in 1..Len(rs) |-> ReagentNormalize(rs[i], mode)]

\* CatalyticReactionData_core.normalize: products without a pure component
ResultsNormalize(cat, mode) ==
    [cat EXCEPT !.products =
        [i \in 1..Len(@) |->
            IF @[i].pure_component = None THEN ReagentNormalize(@[i], mode) ELSE @[i]]]

-----------------------------------------------------------------------------
(* Projection of the record into the shape of the results tree *)

ReactantResult(c) ==
    [name |-> c.name, conversion |-> c.conversion,
     gas_concentration_in |-> c.gas_concentration_in,
     gas_concentration_out |-> c.gas_concentration_out]

ProductResult(p) ==
    [name |-> p.name, selectivity |-> p.selectivity,
     gas_concentration_out |-> p.gas_concentration_out]

\* for j in reagents: if i.name == j.name: ...   (i is renamed on the way)
RECURSIVE MatchReagents(_, _, _, _)
MatchReagents(i, reagents, k, out) ==
    IF k > Len(reagents) \/ out.err # None THEN [out EXCEPT !.i = i]
    ELSE IF i.name # reagents[k].name THEN MatchReagents(i, reagents, k + 1, out)
    ELSE IF reagents[k].pure_component = None
         THEN [out EXCEPT !.i = i, !.err = Some("AttributeError")]
    ELSE LET iupac == Get(reagents[k].pure_component).iupac_name
         IN With(IF iupac # None THEN [i EXCEPT !.name = Get(iupac)] ELSE i, LAMBDA i2 :
            With([out EXCEPT !.results = Append(@, ReactantResult(i2))], LAMBDA out2 :
                 MatchReagents(i2, reagents, k + 1, out2)))

\* for i in conversions: skip the inert ones, match the others
RECURSIVE ProjectConversions(_, _, _, _)
ProjectConversions(conversions, reagents, n, out) ==
    IF n > Len(conversions) \/ out.err # None
    THEN [conversions |-> conversions, results |-> out.results, err |-> out.err]
    ELSE IF conversions[n].name \in InertNames
         THEN ProjectConversions(conversions, reagents, n + 1, out)
    ELSE With(MatchReagents(conversions[n], reagents, 1, out), LAMBDA m :
         With([conversions EXCEPT ![n] = m.i], LAMBDA renamed :
              ProjectConversions(renamed, reagents, n + 1, m)))

\* for i in products: rename to the IUPAC name when there is one
RenameProducts(products) ==
    [n \in 1..Len(products) |->
        IF products[n].pure_component # None
           /\ Get(products[n].pure_component).iupac_name # None
        THEN [products[n] EXCEPT !.name = Get(Get(products[n].pure_component).iupac_name)]
        ELSE products[n]]

-----------------------------------------------------------------------------
(* The results tree: archive.results, its nodes created on demand *)

NewReaction ==
    [reactants |-> <<>>, products |-> <<>>, name |-> None, type |-> None,
     temperature |-> None, pressure |-> None,
     weight_hourly_space_velocity |-> None, gas_hourly_space_velocity |-> None,
     reaction_conditions |-> None]

NewCatalyst ==
    [catalyst_name |-> None, catalyst_type |-> None, characterization_methods |-> None]

NewCatalytic ==
    [reaction |-> None, catalyst |-> None,
     catalyst_characterization |-> None, catalyst_synthesis |-> None]

NewProperties == [catalytic |-> None]
NewResults == [properties |-> None, material |-> None]
NewMaterial == [material_name |-> None, elemental_composition |-> <<>>, elements |-> <<>>]

\* the first three steps shared by add_activity and both add_catalyst
AddCatalytic(ar) ==
    LET a1 == IF ar.results = None THEN [ar EXCEPT !.results = Some(NewResults)] ELSE ar
        a2 == IF a1.results[1].properties = None
              THEN [a1 EXCEPT !.results[1].properties = Some(NewProperties)] ELSE a1
    IN IF a2.results[1].properties[1].catalytic = None
       THEN [a2 EXCEPT !.results[1].properties[1].catalytic = Some(NewCatalytic)] ELSE a2

\* a variant of add_activity that always puts a new Reaction node
AddActivityAnew(ar) ==
    LET a == AddCatalytic(ar)
    IN [a EXCEPT !.results[1].properties[1].catalytic[1].reaction = Some(NewReaction)]

\* add_activity
AddActivity(ar) ==
    LET a == AddCatalytic(ar)
    IN IF a.results[1].properties[1].catalytic[1].reaction = None
       THEN [a EXCEPT !.results[1].properties[1].catalytic[1].reaction = Some(NewReaction)]
       ELSE a

\* add_catalyst of schema.py
AddCatalyst(ar) ==
    LET a == AddCatalytic(ar)
    IN IF a.results[1].properties[1].catalytic[1].catalyst = None
       THEN [a EXCEPT !.results[1].properties[1].catalytic[1].catalyst = Some(NewCatalyst)]
       ELSE a

\* add_catalyst of catalyst_measurement.py
AddCatalystMeasurement(ar) ==
    LET a == AddCatalytic(ar)
        b == IF a.results[1].properties[1].catalytic[1].catalyst_characterization = None
             THEN [a EXCEPT !.results[1].properties[1].catalytic[1]
                                .catalyst_characterization = Some([surface_area |-> None])]
             ELSE a
    IN IF b.results[1].properties[1].catalytic[1].catalyst_synthesis = None
       THEN [b EXCEPT !.results[1].properties[1].catalytic[1].catalyst_synthesis =
                Some([catalyst_name |-> None, catalyst_type |-> None])]
       ELSE b

Reaction(ar) == ar.results[1].properties[1].catalytic[1].reaction[1]
HasReaction(ar) ==
    /\ ar.results # None
    /\ ar.results[1].properties # None
    /\ ar.results[1].properties[1].catalytic # None
    /\ ar.results[1].properties[1].catalytic[1].reaction # None

SetReaction(ar, r) == [ar EXCEPT !.results[1].properties[1].catalytic[1].reaction = Some(r)]

WithMaterial(ar) ==
    IF ar.results[1].material = None
    THEN [ar EXCEPT !.results[1].material = Some(NewMaterial)] ELSE ar

\* ase.data.chemical_symbols, as far as the model's samples need it
ChemicalSymbols == {"Pt", "Al", "O", "Cu", "Zn"}

\* a variant of the loop below that adds every symbol not yet in the list
RECURSIVE AddElementsAll(_, _, _)
AddElementsAll(st, comp, k) ==
    IF k > Len(comp) THEN st
    ELSE IF \E j \in 1..Len(st.ar.results[1].material[1].elements) :
                st.ar.results[1].material[1].elements[j] = comp[k]
         THEN AddElementsAll(st, comp, k + 1)
    ELSE With([st EXCEPT !.ar.results[1].material[1].elements = Append(@, comp[k])],
              LAMBDA st2 : AddElementsAll(st2, comp, k + 1))

\* for i in elemental_composition: warn, or add the element once
RECURSIVE AddElements(_, _, _)
AddElements(st, comp, k) ==
    IF k > Len(comp) THEN st
    ELSE IF comp[k] \notin ChemicalSymbols
         THEN With([st EXCEPT !.log = Append(@, "invalid element symbol")], LAMBDA st2 :
                   AddElements(st2, comp, k + 1))
    ELSE IF \E j \in 1..Len(st.ar.results[1].material[1].elements) :
                st.ar.results[1].material[1].elements[j] = comp[k]
         THEN AddElements(st, comp, k + 1)
    ELSE With([st EXCEPT !.ar.results[1].material[1].elements = Append(@, comp[k])],
              LAMBDA st2 : AddElements(st2, comp, k + 1))

\* the part of both populate functions that copies the material of the
\* referenced sample; st is [ar, log]
PopulateMaterial(st, ref) ==
    LET a1 == IF ref.name # None
              THEN [WithMaterial(st.ar) EXCEPT !.results[1].material[1].material_name = ref.name]
              ELSE st.ar
        a2 == [WithMaterial(a1) EXCEPT
                  !.results[1].material[1].elemental_composition = ref.elemental_composition]
    IN With([st EXCEPT !.ar = a2], LAMBDA st2 :
            AddElements(st2, ref.elemental_composition, 1))

\* populate_catalyst_sample_info(archive, self, logger, reference=True)
PopulateFromReference(st, ref) ==
    LET a0 == AddCatalyst(st.ar)
        a1 == IF ref.name # None
              THEN [a0 EXCEPT !.results[1].properties[1].catalytic[1].catalyst[1]
                                  .catalyst_name = ref.name]
              ELSE a0
        a2 == IF ref.catalyst_type # None
              THEN [a1 EXCEPT !.results[1].properties[1].catalytic[1].catalyst[1]
                                  .catalyst_type = ref.catalyst_type]
              ELSE a1
    IN With([st EXCEPT !.ar = a2], LAMBDA st2 : PopulateMaterial(st2, ref))

\* populate_catalyst_sample_info(archive, self, logger): the sample entry itself
PopulateFromSelf(ar, self) ==
    LET a0 == AddCatalyst(ar)
        a1 == IF self.name # None
              THEN [a0 EXCEPT !.results[1].properties[1].catalytic[1].catalyst[1]
                                  .catalyst_name = self.name]
              ELSE a0
    IN IF self.catalyst_type # None
       THEN [a1 EXCEPT !.results[1].properties[1].catalytic[1].catalyst[1]
                           .catalyst_type = self.catalyst_type]
       ELSE a1

\* populate_catalyst_sampleinfo of catalyst_measurement.py, reference set
PopulateSampleinfo(st, ref) ==
    LET a0 == AddCatalystMeasurement(st.ar)
        a1 == IF ref.name # None
              THEN [WithMaterial(a0) EXCEPT
                       !.results[1].properties[1].catalytic[1].catalyst_synthesis[1]
                           .catalyst_name = ref.name,
                       !.results[1].material[1].material_name = ref.name]
              ELSE a0
        a2 == IF ref.catalyst_type # None
              THEN [a1 EXCEPT !.results[1].properties[1].catalytic[1].catalyst_synthesis[1]
                                  .catalyst_type = ref.catalyst_type]
              ELSE a1
        a3 == [WithMaterial(a2) EXCEPT
                  !.results[1].material[1].elemental_composition = ref.elemental_composition]
    IN With([st EXCEPT !.ar = a3], LAMBDA st2 :
            AddElements(st2, ref.elemental_composition, 1))

-----------------------------------------------------------------------------
(* Samples *)

NewSample == [lab_id |-> None, name |-> None, reference |-> None]

\* CompositeSystemReference.normalize: the framework resolves the lab_id to
\* the sample entry it names, when the search finds one
SampleNormalize(sample, e) ==
    IF sample.reference = None /\ sample.lab_id # None /\ e.ref # None
    THEN [sample EXCEPT !.reference = e.ref]
    ELSE sample

-----------------------------------------------------------------------------
(* normalize after the column loop *)

\* np.linspace(0, n - 1, n)
\* a variant of the default index that counts from one
LinspaceFromOne(n) == [i \in 1..n |-> Num(i)]

Linspace(n) == [i \in 1..n |-> Num(i - 1)]

\* set_total_flow_rate / catalyst_mass, kept in mL/(g*hour): each element is
\* NaN or the quotient <<numerator, denominator>>
\* a variant of the quotient that leaves the units of its operands as they are
WhsvUnscaled(flow, mass) ==
    [i \in 1..Len(flow) |->
        IF IsNaN(flow[i]) \/ IsNaN(mass) THEN NaN ELSE <<flow[i][1], mass[1]>>]

Whsv(flow, mass) ==
    [i \in 1..Len(flow) |->
        IF IsNaN(flow[i]) \/ IsNaN(mass) THEN NaN ELSE <<flow[i][1] * 60000, mass[1]>>]

\* reagents normalized and attached, derived quantities, default run index
BuildRecord(a, mode) ==
    With(NormalizeAll(a.reagents, mode), LAMBDA reagents :
    LET f1 == [a.feed EXCEPT !.reagents = reagents]
        feed == IF f1.set_total_flow_rate # None /\ a.reactor_filling.catalyst_mass # None
                THEN [f1 EXCEPT !.weight_hourly_space_velocity =
                        Some(Whsv(Get(f1.set_total_flow_rate),
                                  Get(a.reactor_filling.catalyst_mass)))]
                ELSE f1
        c1 == IF a.cat_data.runs = None
              THEN [a.cat_data EXCEPT !.runs = Some(Linspace(a.number_of_runs))]
              ELSE a.cat_data
        cat_data == [c1 EXCEPT !.products = a.products,
                               !.reactants_conversions = a.conversions,
                               !.rates = a.rates]
    IN [feed |-> feed, cat_data |-> cat_data, reagents |-> reagents])

\* a variant of the store that appends the record to those already there
StoreRecordAppending(self, b, reactor_filling) ==
    [self EXCEPT !.reaction_conditions = Some(b.feed),
                  !.results = Append(@, b.cat_data),
                  !.reactor_filling = IF @ = None THEN Some(reactor_filling) ELSE @]

\* a variant of the store that keeps the conditions the entry already has
StoreRecordKeeping(self, b, reactor_filling) ==
    [self EXCEPT !.reaction_conditions = IF @ = None THEN Some(b.feed) ELSE @,
                  !.results = <<b.cat_data>>,
                  !.reactor_filling = IF @ = None THEN Some(reactor_filling) ELSE @]

\* self.reaction_conditions = feed; the result record replaces what was
\* there (the single reaction_results of CatalystTests is held as a list of
\* one, like the results of CatalyticReactionCleanData); the reactor filling
\* is set only when the entry has none
StoreRecord(self, b, reactor_filling) ==
    [self EXCEPT !.reaction_conditions = Some(b.feed),
                  !.results = <<b.cat_data>>,
                  !.reactor_filling = IF @ = None THEN Some(reactor_filling) ELSE @]

\* results[0].normalize and the two renaming loops, on the stored record
\* (the sections of the record are the objects the loops rename)
ProjectRecord(st, b, mode) ==
    With(ResultsNormalize(st.entry.results[1], mode), LAMBDA cat1 :
    With(ProjectConversions(cat1.reactants_conversions, b.reagents, 1,
                            [results |-> <<>>, err |-> None, i |-> None]), LAMBDA pc :
    With([cat1 EXCEPT !.reactants_conversions = pc.conversions], LAMBDA cat2 :
    With([cat2 EXCEPT !.products = RenameProducts(@)], LAMBDA cat3 :
       IF pc.err # None
       THEN [st EXCEPT !.entry.results = <<cat2>>, !.err = pc.err, !.stage = "projection"]
       ELSE [st EXCEPT !.entry.results = <<cat3>>,
                       !.conversions_results = pc.results,
                       !.product_results =
                            [n \in 1..Len(cat3.products) |-> ProductResult(cat3.products[n])]]))))

\* what is written under reaction (or reaction.reaction_conditions), in order
ConditionWrites(feed, cat) ==
    (IF cat.temperature # None
       THEN << <<"temperature", Some(InKelvin(TemperatureUnit, Get(cat.temperature)))>> >>
       ELSE IF feed.set_temperature # None
       THEN << <<"temperature", Some(InKelvin(SetTemperatureUnit, Get(feed.set_temperature)))>> >>
       ELSE <<>>)
    \o (IF cat.pressure # None THEN << <<"pressure", cat.pressure>> >>
        ELSE IF feed.set_pressure # None THEN << <<"pressure", feed.set_pressure>> >>
        ELSE <<>>)
    \o (IF feed.weight_hourly_space_velocity # None
        THEN << <<"weight_hourly_space_velocity", feed.weight_hourly_space_velocity>> >>
        ELSE <<>>)
    \o (IF feed.gas_hourly_space_velocity # None
        THEN << <<"gas_hourly_space_velocity", feed.gas_hourly_space_velocity>> >>
        ELSE <<>>)

RECURSIVE ApplyWrites(_, _, _)
ApplyWrites(node, writes, k) ==
    IF k > Len(writes) THEN node
    ELSE ApplyWrites([node EXCEPT ![writes[k][1]] = writes[k][2]], writes, k + 1)

NameWrites(r, self) ==
    IF self.reaction_name # None
    THEN [r EXCEPT !.name = self.reaction_name, !.type = self.reaction_class]
    ELSE r

\* CatalystTests.normalize: add_activity and the writes to reaction.*
WriteResultsMeasurement(st) ==
    With(AddActivity(st.ar), LAMBDA ar :
    LET cat == st.entry.results[1]
        feed == Get(st.entry.reaction_conditions)
        r1 == [Reaction(ar) EXCEPT !.reactants = st.conversions_results]
        r2 == ApplyWrites(r1, ConditionWrites(feed, cat), 1)
        r3 == [r2 EXCEPT !.products = st.product_results]
    IN [st EXCEPT !.ar = SetReaction(ar, NameWrites(r3, st.entry))])

\* CatalyticReactionCleanData.normalize: the conditions go to
\* reaction.reaction_conditions.*, a node nothing here creates
WriteResultsCleanData(st) ==
    With(AddActivity(st.ar), LAMBDA ar :
    With([Reaction(ar) EXCEPT !.reactants = st.conversions_results], LAMBDA r1 :
    With(ConditionWrites(Get(st.entry.reaction_conditions), st.entry.results[1]),
         LAMBDA writes :
       IF writes # <<>> /\ r1.reaction_conditions = None
       THEN [st EXCEPT !.ar = SetReaction(ar, r1),
                       !.err = Some("AttributeError"), !.stage = "results"]
       ELSE LET r2 == IF writes = <<>> THEN r1
                      ELSE [r1 EXCEPT !.reaction_conditions =
                               Some(ApplyWrites(Get(r1.reaction_conditions), writes, 1))]
                r3 == [r2 EXCEPT !.products = st.product_results]
            IN [st EXCEPT !.ar = SetReaction(ar, NameWrites(r3, st.entry))])))

-----------------------------------------------------------------------------
(* Samples and figures of the table-driven entries *)

\* str(cell) of a numeric cell: a string, never equal to the number
Str(f) == IF IsNaN(f) THEN <<"nan", 0>> ELSE <<"float", f[1]>>

\* schema.py: the sample named by the file, and what becomes of self.samples
FileSample(st, table, e) ==
    LET lab_id == IF HasColumn(table, K_FHI_ID) THEN Some(Str(Column(table, K_FHI_ID)[1]))
                  ELSE IF HasColumn(table, K_sample_id)
                  THEN Some(Str(Column(table, K_sample_id)[1]))
                  ELSE None
        name == IF HasColumn(table, K_catalyst) THEN Some(Str(Column(table, K_catalyst)[1]))
                ELSE None
        old == st.entry.samples
    IN With(SampleNormalize([NewSample EXCEPT !.lab_id = lab_id, !.name = name], e),
            LAMBDA sample :
       With(IF e.client THEN st
            ELSE IF old = <<>> THEN [st EXCEPT !.entry.samples = <<sample>>]
            ELSE IF old[1].lab_id = sample.lab_id
            THEN [st EXCEPT !.entry.samples = <<sample>>]
            ELSE [st EXCEPT !.entry.samples = Append(old, sample),
                            !.log = Append(@, "already a sample in the measurement")],
            LAMBDA s1 :
       IF s1.entry.samples # <<>> /\ s1.entry.samples[1].reference # None
       THEN With(PopulateFromReference([ar |-> s1.ar, log |-> s1.log],
                                       Get(s1.entry.samples[1].reference)), LAMBDA r :
                 [s1 EXCEPT !.ar = r.ar, !.log = r.log])
       ELSE s1))

\* catalyst_measurement.py: the first sample is looked up again by lab_id
MeasurementSamples(st, e) ==
    LET old == st.entry.samples
    IN With(IF old # <<>> /\ old[1].lab_id # None /\ old[1].reference = None
            THEN [st EXCEPT !.entry.samples =
                      <<SampleNormalize([NewSample EXCEPT !.lab_id = old[1].lab_id,
                                                          !.name = old[1].name], e)>>]
            ELSE st, LAMBDA s1 :
       IF s1.entry.samples # <<>> /\ s1.entry.samples[1].reference # None
       THEN With(PopulateSampleinfo([ar |-> s1.ar, log |-> s1.log],
                                    Get(s1.entry.samples[1].reference)), LAMBDA r :
                 [s1 EXCEPT !.ar = r.ar, !.log = r.log])
       ELSE s1)

Fig(label) == [label |-> label, name |-> <<>>]

SxPlots(cat) ==
    [i \in 1..Len(cat.reactants_conversions) |->
        [label |-> "S-X plot", name |-> cat.reactants_conversions[i].name]]

\* the figure definitions; products[0] of an empty list raises IndexError, and
\* schema.py reads self.results.products (a list has no such attribute) when
\* the first product has an outlet concentration and no selectivity
Figures(st, cleanData) ==
    LET cat0 == st.entry.results[1]
        feed == Get(st.entry.reaction_conditions)
        f1 == IF cat0.temperature # None THEN <<Fig("figure Temperature")>> ELSE <<>>
        f2 == IF cat0.pressure # None \/ feed.set_pressure # None
              THEN Append(f1, Fig("figure Pressure")) ELSE f1
    IN With(IF cat0.temperature # None
            THEN [cat0 EXCEPT !.figures = Append(@, Fig("Temperature"))] ELSE cat0,
            LAMBDA cat1 :
       LET stop(kind) ==
               [st EXCEPT !.entry.figures = f2, !.entry.results = <<cat1>>,
                          !.err = Some(kind), !.stage = "figures"]
       IN IF cat1.products = <<>> THEN stop("IndexError")
          ELSE IF cat1.products[1].selectivity = None
                  /\ cat1.products[1].gas_concentration_out # None /\ cleanData
          THEN stop("AttributeError")
          ELSE
          LET f3 == IF cat1.products[1].selectivity # None
                    THEN Append(f2, Fig("figure Selectivity"))
                    ELSE IF cat1.products[1].gas_concentration_out # None
                    THEN Append(f2, Fig("figure Gas concentration out"))
                    ELSE f2
              f4 == Append(f3, Fig("figure Conversion"))
              f5 == IF cat1.products[1].selectivity # None THEN f4 \o SxPlots(cat1) ELSE f4
          IN [st EXCEPT !.entry.figures = f5,
                        !.entry.results = <<[cat1 EXCEPT !.figures = Append(@, Fig("Rates"))]>>])

-----------------------------------------------------------------------------
(* normalize of the two table-driven classes, from the table read *)

NormalizeTable(c, e, self, ar, rawtable) ==
    With(DropNa(rawtable), LAMBDA table :
    With(Scan(table), LAMBDA a :
    LET st0 == [entry |-> self, ar |-> ar, log |-> <<>>, err |-> None, stage |-> "end",
                conversions_results |-> <<>>, product_results |-> <<>>,
                reactor_filling |-> a.reactor_filling]
    IN IF a.err # None THEN [st0 EXCEPT !.err = a.err, !.stage = "scan"]
       ELSE
       With(IF c = "CleanData" THEN FileSample(st0, table, e) ELSE st0, LAMBDA s1 :
       With(BuildRecord(a, e.pubchem), LAMBDA b :
       With([s1 EXCEPT !.entry = StoreRecord(@, b, a.reactor_filling)], LAMBDA s2 :
       With(ProjectRecord(s2, b, e.pubchem), LAMBDA s3 :
       With(IF s3.err # None THEN s3
            ELSE IF c = "CleanData" THEN WriteResultsCleanData(s3)
            ELSE WriteResultsMeasurement(s3), LAMBDA s4 :
       With(IF s4.err # None \/ c = "CleanData" THEN s4 ELSE MeasurementSamples(s4, e),
            LAMBDA s5 :
       IF s5.err # None THEN s5 ELSE Figures(s5, c = "CleanData")))))))))

\* a variant of the extension test that looks at the end of the file name
SupportedByEnding(data_file) ==
    EndsWith(data_file, EXT_CSV) \/ EndsWith(data_file, EXT_XLSX)

\* the extension test of normalize
Supported(data_file) ==
    ~(SplitExt(data_file) # EXT_CSV /\ SplitExt(data_file) # EXT_XLSX)

-----------------------------------------------------------------------------
(* CatalystSample.normalize and the search for referencing entries *)

\* page_size of the search issued by CatalystSample.normalize
PageSize == 10

\* entry types of the hits that count as a characterization method
RECURSIVE Methods(_, _)
Methods(data, k) ==
    IF k > Len(data) THEN <<>>
    ELSE IF data[k] = "ELNXRayDiffraction" THEN <<"XRD">> \o Methods(data, k + 1)
    ELSE Methods(data, k + 1)

\* add_referencing_methods_to_sample_result, given what search() did:
\* res.raises, or res.total hits of which res.data is the first page
AddReferencingMethods(st, self, res) ==
    IF self.lab_id = None THEN st
    ELSE IF res.raises THEN [st EXCEPT !.err = Some("SearchError"), !.stage = "search"]
    ELSE IF res.total > 0
    THEN LET methods == Methods(res.data, 1)
             s1 == IF res.total > PageSize
                   THEN [st EXCEPT !.log = Append(@, "only the first page is checked")]
                   ELSE st
             old == s1.ar.results[1].properties[1].catalytic[1].catalyst[1]
                        .characterization_methods
         IN IF methods # <<>>
            THEN [s1 EXCEPT !.ar.results[1].properties[1].catalytic[1].catalyst[1]
                                .characterization_methods =
                        Some(Append(IF old = None THEN <<>> ELSE Get(old), methods[1]))]
            ELSE s1
    ELSE [st EXCEPT !.log = Append(@, "found no entries with reference")]

\* CatalystSample.normalize
SampleEntryNormalize(e, self, ar, res) ==
    LET st == [entry |-> self, ar |-> PopulateFromSelf(ar, self), log |-> <<>>,
               err |-> None, stage |-> "end"]
    IN IF e.client THEN st ELSE AddReferencingMethods(st, self, res)

-----------------------------------------------------------------------------
(* CatalyticReaction.normalize: the entry filled by hand or from json *)

\* lines 948-957: the reagents without a pure component are normalized; the
\* space velocity is derived when it is not given; reading catalyst_mass of
\* a reactor filling that is not there raises
ReactionConditionsStep(st, mode) ==
    IF st.entry.reaction_conditions = None THEN st
    ELSE
    LET rc == Get(st.entry.reaction_conditions)
        reagents == [i \in 1..Len(rc.reagents) |->
                        IF rc.reagents[i].pure_component = None
                        THEN ReagentNormalize(rc.reagents[i], mode) ELSE rc.reagents[i]]
        rc1 == [rc EXCEPT !.reagents = reagents]
    IN IF rc1.set_total_flow_rate = None
       THEN [st EXCEPT !.entry.reaction_conditions = Some(rc1)]
       ELSE IF st.entry.reactor_filling = None
       THEN [st EXCEPT !.entry.reaction_conditions = Some(rc1),
                       !.err = Some("AttributeError"), !.stage = "conditions"]
       ELSE IF Get(st.entry.reactor_filling).catalyst_mass # None
               /\ rc1.weight_hourly_space_velocity = None
       THEN [st EXCEPT !.entry.reaction_conditions =
                Some([rc1 EXCEPT !.weight_hourly_space_velocity =
                        Some(Whsv(Get(rc1.set_total_flow_rate),
                                  Get(Get(st.entry.reactor_filling).catalyst_mass)))])]
       ELSE [st EXCEPT !.entry.reaction_conditions = Some(rc1)]

\* lines 959-984 for the result section at index k (the code takes the
\* first): it is normalized and projected; the
\* loop over self.reaction_conditions.reagents raises at the first
\* conversion that is not inert when there are no reaction conditions
ReactionProjectAt(st, mode, k) ==
    IF st.entry.results = <<>> THEN st
    ELSE
    With(ResultsNormalize(st.entry.results[k], mode), LAMBDA cat1 :
    With(IF Len(st.entry.results) > 1
         THEN [st EXCEPT !.log = Append(@, "several instances of results found")]
         ELSE st, LAMBDA s1 :
    With(IF st.entry.reaction_conditions = None
         THEN [conversions |-> cat1.reactants_conversions, results |-> <<>>,
               err |-> IF \E n \in 1..Len(cat1.reactants_conversions) :
                            cat1.reactants_conversions[n].name \notin InertNames
                       THEN Some("AttributeError") ELSE None]
         ELSE ProjectConversions(cat1.reactants_conversions,
                                 Get(st.entry.reaction_conditions).reagents, 1,
                                 [results |-> <<>>, err |-> None, i |-> None]), LAMBDA pc :
    With([cat1 EXCEPT !.reactants_conversions = pc.conversions], LAMBDA cat2 :
    With([cat2 EXCEPT !.products = RenameProducts(@)], LAMBDA cat3 :
       IF pc.err # None
       THEN [s1 EXCEPT !.entry.results[k] = cat2, !.err = pc.err, !.stage = "projection"]
       ELSE [s1 EXCEPT !.entry.results[k] = cat3,
                       !.conversions_results = pc.results,
                       !.product_results =
                            [n \in 1..Len(cat3.products) |-> ProductResult(cat3.products[n])]])))))

\* a variant of the step below that takes the last result section
ReactionProjectStepLast(st, mode) == ReactionProjectAt(st, mode, Len(st.entry.results))

\* self.results[0] is the section that is normalized and projected
ReactionProjectStep(st, mode) == ReactionProjectAt(st, mode, 1)

\* one assignment to reaction.reaction_conditions.<key>; w is [r, err]
ConditionWrite(w, key, val) ==
    IF w.err # None THEN w
    ELSE IF w.r.reaction_conditions = None THEN [w EXCEPT !.err = Some("AttributeError")]
    ELSE [w EXCEPT !.r.reaction_conditions = Some([Get(@) EXCEPT ![key] = val])]

\* lines 994-997 and 998-1001: the measured value, else the set value, whose
\* lookup raises when there are no reaction conditions
MeasuredOrSet(w, self, key, measured, setKey, unit, setUnit) ==
    IF w.err # None THEN w
    ELSE IF measured # None
    THEN ConditionWrite(w, key, IF unit = "none" THEN measured
                                ELSE Some(InKelvin(unit, Get(measured))))
    ELSE IF self.reaction_conditions = None THEN [w EXCEPT !.err = Some("AttributeError")]
    ELSE IF Get(self.reaction_conditions)[setKey] # None
    THEN ConditionWrite(w, key, IF setUnit = "none" THEN Get(self.reaction_conditions)[setKey]
                                ELSE Some(InKelvin(setUnit,
                                        Get(Get(self.reaction_conditions)[setKey]))))
    ELSE w

\* lines 986-1012: add_activity and the writes to the results tree
ReactionWriteStep(st) ==
    With(AddActivity(st.ar), LAMBDA ar :
    LET self == st.entry
        has == self.results # <<>>
        w0 == [r |-> IF has THEN [Reaction(ar) EXCEPT !.reactants = st.conversions_results]
                     ELSE Reaction(ar),
               err |-> None]
    IN With(IF has
            THEN MeasuredOrSet(w0, self, "temperature", self.results[1].temperature,
                               "set_temperature", TemperatureUnit, SetTemperatureUnit)
            ELSE w0, LAMBDA w1 :
       With(IF has
            THEN MeasuredOrSet(w1, self, "pressure", self.results[1].pressure,
                               "set_pressure", "none", "none")
            ELSE w1, LAMBDA w2 :
       With(IF has /\ w2.err = None /\ st.product_results # <<>>
            THEN [w2 EXCEPT !.r.products = st.product_results] ELSE w2, LAMBDA w3 :
       With(IF self.reaction_conditions # None
               /\ Get(self.reaction_conditions).weight_hourly_space_velocity # None
            THEN ConditionWrite(w3, "weight_hourly_space_velocity",
                                Get(self.reaction_conditions).weight_hourly_space_velocity)
            ELSE w3, LAMBDA w4 :
       With(IF self.reaction_conditions # None
               /\ Get(self.reaction_conditions).gas_hourly_space_velocity # None
            THEN ConditionWrite(w4, "gas_hourly_space_velocity",
                                Get(self.reaction_conditions).gas_hourly_space_velocity)
            ELSE w4, LAMBDA w5 :
       IF w5.err # None
       THEN [st EXCEPT !.ar = SetReaction(ar, w5.r), !.err = w5.err, !.stage = "results"]
       ELSE LET r6 == IF self.reaction_name # None
                      THEN [w5.r EXCEPT !.name = self.reaction_name] ELSE w5.r
                r7 == IF self.reaction_class # None
                      THEN [r6 EXCEPT !.type = self.reaction_class] ELSE r6
            IN [st EXCEPT !.ar = SetReaction(ar, r7)]))))))

\* lines 1014-1021: the first sample is looked up by lab_id and its
\* reference copied to the results tree
ReactionSamplesStep(st, e) ==
    LET old == st.entry.samples
    IN With(IF old # <<>> /\ old[1].lab_id # None /\ old[1].reference = None
            THEN [st EXCEPT !.entry.samples =
                      <<SampleNormalize([NewSample EXCEPT !.lab_id = old[1].lab_id,
                                                          !.name = old[1].name], e)>>]
            ELSE st, LAMBDA s1 :
       IF s1.entry.samples # <<>> /\ s1.entry.samples[1].reference # None
       THEN With(PopulateFromReference([ar |-> s1.ar, log |-> s1.log],
                                       Get(s1.entry.samples[1].reference)), LAMBDA r :
                 [s1 EXCEPT !.ar = r.ar, !.log = r.log])
       ELSE s1)

\* lines 1023-1101: the figures; without results nothing is drawn, and the
\* lookups in self.reaction_conditions raise when it is not there
ReactionFigures(st) ==
    IF st.entry.results = <<>> THEN st
    ELSE
    LET cat == st.entry.results[1]
        rc == st.entry.reaction_conditions
        stop(figs, kind) ==
            [st EXCEPT !.entry.figures = figs, !.err = Some(kind), !.stage = "figures"]
        sx == [i \in 1..Len(cat.reactants_conversions) |->
                  [label |-> "S-X plot Conversion", name |-> cat.reactants_conversions[i].name]]
    IN IF cat.time_on_stream = None /\ cat.runs = None /\ rc = None
       THEN stop(<<>>, "AttributeError")
       ELSE IF cat.time_on_stream = None /\ cat.runs = None /\ Get(rc).set_temperature = None
       THEN stop(<<>>, "TypeError")
       ELSE IF cat.temperature = None /\ rc = None THEN stop(<<>>, "AttributeError")
       ELSE
       LET f1 == IF cat.temperature # None \/ Get(rc).set_temperature # None
                 THEN <<Fig("figure Temperature")>> ELSE <<>>
       IN IF cat.pressure = None /\ rc = None THEN stop(f1, "AttributeError")
          ELSE
          LET f2 == IF cat.pressure # None \/ Get(rc).set_pressure # None
                    THEN Append(f1, Fig("figure Pressure")) ELSE f1
          IN [st EXCEPT !.entry.figures =
                 f2 \o <<Fig("figure Selectivity"), Fig("figure Conversion"), Fig("Rates")>>
                    \o sx]

\* CatalyticReaction.normalize
CatalyticReactionNormalize(e, self, ar) ==
    LET st0 == [entry |-> self, ar |-> ar, log |-> <<>>, err |-> None, stage |-> "end",
                conversions_results |-> <<>>, product_results |-> <<>>,
                reactor_filling |-> NewReactorFilling]
    IN With(ReactionConditionsStep(st0, e.pubchem), LAMBDA s1 :
       With(IF s1.err # None THEN s1 ELSE ReactionProjectStep(s1, e.pubchem), LAMBDA s2 :
       With(IF s2.err # None THEN s2 ELSE ReactionWriteStep(s2), LAMBDA s3 :
       With(IF s3.err # None THEN s3 ELSE ReactionSamplesStep(s3, e), LAMBDA s4 :
       IF s4.err # None THEN s4 ELSE ReactionFigures(s4)))))

-----------------------------------------------------------------------------
(* Inputs: headers, tables, file names, collaborators *)

\* an entry as the upload leaves it, before any normalize
NewEntry ==
    [data_file |-> None, reaction_conditions |-> None, results |-> <<>>,
     reactor_filling |-> None, samples |-> <<>>, figures |-> <<>>,
     reaction_name |-> None, reaction_class |-> None,
     lab_id |-> None, name |-> None, catalyst_type |-> None]

\* the same entry with what a user may have filled in by hand
FilledEntry ==
    [NewEntry EXCEPT
        !.reactor_filling = Some([catalyst_mass |-> Some(Num(33))]),
        !.samples = <<[NewSample EXCEPT !.lab_id = Some(Str(Num(7)))]>>,
        !.reaction_name = Some("CO oxidation"),
        !.reaction_class = Some("oxidation")]


U_MG == <<"(", "m", "g", ")">>
U_C == <<"(", "C", ")">>
U_K == <<"(", "K", ")">>
U_H == <<"(", "h", ")">>
U_BAR == <<"(", "b", "a", "r", ")">>
U_FLOW == <<"(", "m", "L", "/", "m", "i", "n", ")">>
N_nC5 == <<"n", "C", "5">>
N_He == <<"H", "e">>
N_no == <<"n", "o">>

\* headers the generated tables draw their columns from
GenHeaders ==
    { P_step, Hdr2(P_step, N_no),
      Hdr3(P_x, N_CO, PCT), Hdr2(P_x, N_CO), Hdr3(P_x, N_n_Butene, PCT),
      Hdr3(P_x, N_nC5, PCT),
      Hdr3(P_x_r, N_CO, PCT), Hdr3(P_x_r, N_nC5, PCT),
      Hdr3(P_x_p, N_CO, PCT), Hdr3(P_y, N_CO, PCT), Hdr3(P_y, N_CO2, PCT),
      Hdr3(P_S_p, N_CO2, PCT),
      Hdr2(P_mass, U_MG), Hdr2(P_mass, TOK_G),
      Hdr2(P_temperature, TOK_K), Hdr2(P_Vflow, U_FLOW), Hdr2(P_TOS, U_H),
      K_FHI_ID }

\* how the cells of a generated table are filled
Patterns == {"full", "nan1", "nancol", "zero"}

\* the cell of column c, row r: distinct numbers, with NaN in row 1 (nan1),
\* NaN throughout column 1 (nancol), or 0 throughout column 1 (zero)
Cell(c, r, pat) ==
    IF pat = "nan1" /\ r = 1 THEN NaN
    ELSE IF pat = "nancol" /\ c = 1 THEN NaN
    ELSE IF pat = "zero" /\ c = 1 THEN Num(0)
    ELSE Num(10 * c + r)

MkTable(hs, n, pat) ==
    [c \in 1..Len(hs) |-> [name |-> hs[c], data |-> [r \in 1..n |-> Cell(c, r, pat)]]]

\* column names are distinct: the reader renames repeated headers
HeaderSeqs ==
    UNION { { hs \in [1..k -> GenHeaders] :
                \A i, j \in 1..k : i # j => hs[i] # hs[j] } : k \in 0..MaxCols }

\* a table without rows has one filling only
PatternsFor(n) == IF n = 0 THEN {"full"} ELSE Patterns

Nums(vs) == [i \in 1..Len(vs) |-> Num(vs[i])]
Col(name, vs) == [name |-> name, data |-> Nums(vs)]

\* tables wider than the generated ones
T_runs ==
    << Col(P_step, <<0, 1, 2>>), Col(Hdr3(P_x, N_CO, PCT), <<5, 5, 5>>),
       Col(Hdr2(P_temperature, TOK_K), <<300, 310, 320>>),
       Col(Hdr3(P_x_r, N_CO, PCT), <<10, 20, 30>>) >>
T_outlet ==
    << Col(Hdr3(P_x, N_CO, PCT), <<5, 5>>), Col(Hdr3(P_x_r, N_CO, PCT), <<10, 20>>),
       Col(Hdr3(P_y, N_CO, PCT), <<4, 3>>) >>
T_both ==
    << Col(Hdr3(P_x, N_CO, PCT), <<5, 5>>), Col(Hdr3(P_x_p, N_CO, PCT), <<9, 19>>),
       Col(Hdr3(P_x_r, N_CO, PCT), <<10, 20>>) >>
T_whole ==
    << Col(K_FHI_ID, <<7, 7>>), Col(K_catalyst, <<3, 3>>),
       Col(Hdr3(P_x, N_CO, PCT), <<5, 5>>), Col(Hdr3(P_x_r, N_CO, PCT), <<10, 20>>),
       Col(Hdr3(P_S_p, N_CO2, PCT), <<90, 80>>), Col(Hdr2(P_mass, U_MG), <<50, 50>>),
       Col(Hdr2(P_Vflow, U_FLOW), <<20, 20>>), Col(Hdr2(P_set_temperature, U_K), <<400, 450>>) >>
T_other ==
    << Col(K_FHI_ID, <<8, 8>>), Col(Hdr3(P_x, N_CO2, PCT), <<2, 2, 2>>),
       Col(Hdr3(P_x_r, N_CO2, PCT), <<1, 2, 3>>),
       Col(Hdr3(P_y, N_CO, PCT), <<1, 1, 1>>), Col(Hdr2(P_mass, TOK_G), <<2, 2, 2>>) >>

T_rest ==
    << Col(Hdr2(P_temperature, U_C), <<25, 30>>), Col(Hdr2(P_pressure, U_BAR), <<1, 1>>),
       Col(Hdr2(P_set_pressure, U_BAR), <<1, 2>>), Col(Hdr2(P_r, N_CO), <<3, 4>>),
       Col(Hdr2(P_GHSV, U_H), <<100, 100>>), Col(Hdr2(P_C_balance, PCT), <<99, 98>>),
       Col(Hdr3(P_x, N_He, PCT), <<95, 95>>), Col(Hdr3(P_x_r, N_He, PCT), <<0, 0>>),
       Col(K_sample_id, <<7, 7>>), Col(Hdr2(P_x_r, N_CO), <<1, 2>>) >>

ScenarioTables == {T_runs, T_outlet, T_both, T_whole, T_other, T_rest}

\* the generated tables are offered to a fresh entry on the server, with
\* name resolution up or down and a lab_id that resolves to nothing
Generated(e, self) ==
    ~e.client /\ e.pubchem \in {"up", "down"} /\ e.ref = None /\ self = NewEntry

\* the tables offered when normalize is called again and again
RepeatTables ==
    ScenarioTables
    \cup { MkTable(<<Hdr2(P_mass, U_MG), Hdr3(P_x, N_CO, PCT)>>, 2, "nan1"),
           MkTable(<<Hdr3(P_x_r, N_CO, PCT)>>, 1, "full"),
           MkTable(<<>>, 0, "full") }

F_csv == <<"d", ".", "c", "s", "v">>
F_xlsx == <<"d", ".", "x", "l", "s", "x">>
F_h5 == <<"d", ".", "h", "5">>
F_upper == <<"d", ".", "C", "S", "V">>
F_bare == <<"c", "s", "v">>
F_hidden == <<"a", "/", ".", "c", "s", "v">>

FileNames == {F_csv, F_xlsx, F_h5, F_upper, F_bare, F_hidden}

\* the sample entries a lab_id may resolve to
RefGood ==
    [name |-> Some("Pt on alumina"), catalyst_type |-> Some("bulk catalyst"),
     elemental_composition |-> <<"Pt", "Al", "O", "Pt">>]
RefOdd ==
    [name |-> None, catalyst_type |-> None, elemental_composition |-> <<"Xx", "Cu">>]

Envs ==
    [client : BOOLEAN, pubchem : {"up", "partial", "down"},
     ref : {None, Some(RefGood), Some(RefOdd)}]

RepeatEnvs ==
    { [client |-> FALSE, pubchem |-> "up", ref |-> Some(RefGood)],
      [client |-> FALSE, pubchem |-> "down", ref |-> None],
      [client |-> FALSE, pubchem |-> "partial", ref |-> Some(RefOdd)],
      [client |-> TRUE, pubchem |-> "up", ref |-> Some(RefGood)] }

\* what the search may do: raise, or return a total and its first page
SearchOutcomes ==
    { [raises |-> TRUE, total |-> 0, data |-> <<>>],
      [raises |-> FALSE, total |-> 0, data |-> <<>>],
      [raises |-> FALSE, total |-> 1, data |-> <<"ELNXRayDiffraction">>],
      [raises |-> FALSE, total |-> 2, data |-> <<"CatalystCollection", "CatalystTests">>],
      [raises |-> FALSE, total |-> 3,
       data |-> <<"CatalystSampleCollection", "ELNXRayDiffraction", "ELNXRayDiffraction">>],
      [raises |-> FALSE, total |-> PageSize + 1,
       data |-> [k \in 1..PageSize |-> IF k = PageSize THEN "ELNXRayDiffraction"
                                        ELSE "CatalystTests"]] }

-----------------------------------------------------------------------------
(* Inputs of CatalyticReaction.normalize: entries filled by hand *)

ManualReagents ==
    { <<>>,
      <<NewReagent(N_CO, Some(Nums(<<5, 5>>)))>>,
      <<NewReagent(N_He, Some(Nums(<<95, 95>>))), NewReagent(N_CO, Some(Nums(<<5, 5>>)))>> }

\* flow and space velocities: none, a flow, a flow with a given WHSV, a GHSV
ManualSpaceVelocity ==
    { [flow |-> None, whsv |-> None, ghsv |-> None],
      [flow |-> Some(Nums(<<20, 30>>)), whsv |-> None, ghsv |-> None],
      [flow |-> Some(Nums(<<20, 30>>)), whsv |-> Some(<<<<7, 1>>, <<7, 1>>>>), ghsv |-> None],
      [flow |-> None, whsv |-> None, ghsv |-> Some(Nums(<<100, 100>>))] }

ManualConditions ==
    {None} \cup
    { Some([NewReactionConditions EXCEPT
              !.reagents = rs,
              !.set_temperature = IF set THEN Some(Nums(<<40000, 45000>>)) ELSE None,
              !.set_pressure = IF set THEN Some(Nums(<<2, 3>>)) ELSE None,
              !.set_total_flow_rate = sv.flow,
              !.weight_hourly_space_velocity = sv.whsv,
              !.gas_hourly_space_velocity = sv.ghsv]) :
        rs \in ManualReagents, set \in BOOLEAN, sv \in ManualSpaceVelocity }

ManualConversions ==
    { <<>>,
      <<[NewReactant(N_CO) EXCEPT !.conversion = Some(Nums(<<10, 20>>)),
                                  !.gas_concentration_in = Some(Nums(<<5, 5>>))]>>,
      <<[NewReactant(N_He) EXCEPT !.conversion = Some(Nums(<<0, 0>>))],
        [NewReactant(N_CO) EXCEPT !.conversion = Some(Nums(<<10, 20>>))]>> }

ManualProducts ==
    { <<>>, <<[NewProduct(N_CO2) EXCEPT !.selectivity = Some(Nums(<<90, 80>>))]>> }

\* the first result section; one with products also has a run index
ManualResults ==
    { [NewCatalyticReactionData EXCEPT
          !.temperature = IF temp THEN Some(Nums(<<2500, 3000>>)) ELSE None,
          !.pressure = IF pres THEN Some(Nums(<<1, 1>>)) ELSE None,
          !.runs = IF ps # <<>> THEN Some(Nums(<<0, 1>>)) ELSE None,
          !.reactants_conversions = cs,
          !.products = ps] :
        temp \in BOOLEAN, pres \in BOOLEAN, cs \in ManualConversions, ps \in ManualProducts }

\* a further result section, unlike every first one
ManualFurtherResults ==
    { NewCatalyticReactionData,
      [NewCatalyticReactionData EXCEPT
          !.temperature = Some(Nums(<<99900>>)),
          !.pressure = Some(Nums(<<9>>)),
          !.reactants_conversions =
              <<[NewReactant(N_CO) EXCEPT !.conversion = Some(Nums(<<99>>))]>>,
          !.products = <<[NewProduct(N_MAN) EXCEPT !.selectivity = Some(Nums(<<1>>))]>>] }

ManualResultLists ==
    {<<>>} \cup { <<r>> : r \in ManualResults }
           \cup { <<r, f>> : r \in ManualResults, f \in ManualFurtherResults }

ManualFillings ==
    { None, Some(NewReactorFilling), Some([catalyst_mass |-> Some(Num(50))]) }

\* sample and reaction name as the user may have set them
ManualExtras ==
    { [samples |-> <<>>, reaction_name |-> None, reaction_class |-> None],
      [samples |-> <<[NewSample EXCEPT !.lab_id = Some(Str(Num(7)))]>>,
       reaction_name |-> Some("CO oxidation"), reaction_class |-> None],
      [samples |-> <<>>, reaction_name |-> None, reaction_class |-> Some("oxidation")] }

ManualEntries ==
    { [NewEntry EXCEPT !.reaction_conditions = rc, !.results = rs, !.reactor_filling = rf,
                       !.samples = x.samples, !.reaction_name = x.reaction_name,
                       !.reaction_class = x.reaction_class] :
        rc \in ManualConditions, rs \in ManualResultLists, rf \in ManualFillings,
        x \in ManualExtras }

ManualEnvs ==
    { [client |-> FALSE, pubchem |-> "up", ref |-> Some(RefGood)],
      [client |-> FALSE, pubchem |-> "down", ref |-> None] }

-----------------------------------------------------------------------------
(* The state machine *)

Classes == {"CatalystTests", "CleanData", "CatalystSample"}

SampleEntries ==
    { NewEntry,
      [NewEntry EXCEPT !.lab_id = Some(Str(Num(7))), !.name = Some("Pt on alumina")],
      [NewEntry EXCEPT !.lab_id = Some(Str(Num(7))), !.catalyst_type = Some("bulk catalyst")] }

Entries(c) == IF c = "CatalystSample" THEN SampleEntries ELSE {NewEntry, FilledEntry}

NewLocals ==
    [reactor_filling |-> NewReactorFilling, conversions_results |-> <<>>,
     product_results |-> <<>>]

\* no call yet; prior is the table the call before read, if it read one
\* a variant of the early return that also empties the results and figures
WithoutFileCleared(self) ==
    [self EXCEPT !.data_file = None, !.results = <<>>, !.figures = <<>>]

\* the entry a normalizer returns early on: no data file is set and no other
\* field is touched
WithoutFile(self) == [self EXCEPT !.data_file = None]

NoCall == [data_file |-> None, table |-> <<>>, status |-> "none", error |-> None,
           stage |-> "none", prior |-> None]

Prior == IF call.stage \in {"none", "no file", "format"} THEN None ELSE Some(call.table)

Init ==
    /\ cls \in Classes
    /\ env \in Envs
    /\ entry \in Entries(cls)
    /\ archive = [results |-> None]
    /\ locals = NewLocals
    /\ call = NoCall
    /\ log = <<>>
    /\ calls = 0

\* normalize with no data file: returns at once
NormalizeNoFile(max) ==
    /\ cls \in {"CatalystTests", "CleanData"}
    /\ calls < max
    /\ entry' = WithoutFile(entry)
    /\ call' = [NoCall EXCEPT !.status = "returned", !.stage = "no file", !.prior = Prior]
    /\ log' = <<>>
    /\ locals' = NewLocals
    /\ calls' = calls + 1
    /\ UNCHANGED <<cls, env, archive>>

\* normalize with a data file whose extension is neither .csv nor .xlsx
NormalizeUnsupported(max) ==
    /\ cls \in {"CatalystTests", "CleanData"}
    /\ calls < max
    /\ \E f \in FileNames :
        /\ ~Supported(f)
        /\ entry' = [entry EXCEPT !.data_file = Some(f)]
        /\ call' = [NoCall EXCEPT !.data_file = Some(f), !.status = "raised",
                                  !.error = Some("ValueError"), !.stage = "format",
                                  !.prior = Prior]
    /\ log' = <<>>
    /\ locals' = NewLocals
    /\ calls' = calls + 1
    /\ UNCHANGED <<cls, env, archive>>

\* normalize of class c on a supported file holding table t
NormalizeFile(c, f, t) ==
    \E r \in {NormalizeTable(c, env, [entry EXCEPT !.data_file = Some(f)], archive, t)} :
       /\ entry' = r.entry
       /\ archive' = r.ar
       /\ log' = r.log
       /\ locals' = [reactor_filling |-> r.reactor_filling,
                     conversions_results |-> r.conversions_results,
                     product_results |-> r.product_results]
       /\ call' = [data_file |-> Some(f), table |-> t,
                   status |-> IF r.err = None THEN "done" ELSE "raised",
                   error |-> r.err, stage |-> r.stage, prior |-> Prior]
       /\ calls' = calls + 1
       /\ UNCHANGED <<cls, env>>

\* the files that pass the extension test and the tables they may hold:
\* every table of `tables` in d.csv, one of them under the other names too,
\* and when `generated` the generated tables in d.csv
NormalizeSupported(c, tables, generated) ==
    \/ \E f \in FileNames, t \in tables :
          /\ Supported(f)
          /\ f = F_csv \/ t = T_runs
          /\ NormalizeFile(c, f, t)
    \/ /\ generated
       /\ Supported(F_csv)
       /\ \E hs \in HeaderSeqs, n \in 0..MaxRows :
            \E pat \in PatternsFor(n) : NormalizeFile(c, F_csv, MkTable(hs, n, pat))

\* CatalystTests.normalize on a .csv or .xlsx file
NormalizeCatalystTests(max, tables, generated) ==
    /\ cls = "CatalystTests"
    /\ calls < max
    /\ NormalizeSupported("CatalystTests", tables, generated)

\* CatalyticReactionCleanData.normalize on a .csv or .xlsx file
NormalizeCleanData(max, tables, generated) ==
    /\ cls = "CleanData"
    /\ calls < max
    /\ NormalizeSupported("CleanData", tables, generated)

\* CatalystSample.normalize
NormalizeCatalystSample(max) ==
    /\ cls = "CatalystSample"
    /\ calls < max
    /\ \E res \in SearchOutcomes :
        \E r \in {SampleEntryNormalize(env, entry, archive, res)} :
           /\ entry' = r.entry
           /\ archive' = r.ar
           /\ log' = r.log
           /\ call' = [NoCall EXCEPT !.status = IF r.err = None THEN "done" ELSE "raised",
                                     !.error = r.err, !.stage = r.stage, !.prior = Prior]
    /\ locals' = NewLocals
    /\ calls' = calls + 1
    /\ UNCHANGED <<cls, env>>

\* one normalize of an upload
Next ==
    \/ NormalizeNoFile(1)
    \/ NormalizeUnsupported(1)
    \/ NormalizeCatalystTests(1, ScenarioTables, Generated(env, entry))
    \/ NormalizeCleanData(1, ScenarioTables, Generated(env, entry))
    \/ NormalizeCatalystSample(1)

Spec == Init /\ [][Next]_vars

\* normalize called up to MaxCalls times on the same entry, which starts as
\* uploaded; the data file is replaced between the calls
InitRepeat == Init /\ env \in RepeatEnvs /\ entry \in {NewEntry} \cup SampleEntries

NextRepeat ==
    \/ NormalizeNoFile(MaxCalls)
    \/ NormalizeUnsupported(MaxCalls)
    \/ NormalizeCatalystTests(MaxCalls, RepeatTables, FALSE)
    \/ NormalizeCleanData(MaxCalls, RepeatTables, FALSE)
    \/ NormalizeCatalystSample(MaxCalls)

SpecRepeat == InitRepeat /\ [][NextRepeat]_vars

\* unit tokens other than "(%)"
U_MOL == <<"(", "m", "o", "l", ")">>
U_DASH == <<"(", "-", ")">>

\* headers of conversion and selectivity columns with and without "(%)"
ColumnHeaders ==
    { Hdr3(P_x, N_CO, PCT),
      Hdr2(P_x_p, N_CO), Hdr3(P_x_r, N_CO, U_MOL), Hdr2(P_y, N_CO2),
      Hdr3(P_y, N_CO, U_DASH), Hdr3(P_S_p, N_CO2, U_DASH),
      Hdr3(P_x_p, N_CO, PCT), Hdr3(P_x_r, N_CO, PCT), Hdr3(P_y, N_CO2, PCT),
      Hdr3(P_S_p, N_CO2, PCT) }

ColumnTables ==
    UNION { { MkTable(hs, MaxRows, "full") :
                hs \in { h \in [1..k -> ColumnHeaders] :
                            \A i, j \in 1..k : i # j => h[i] # h[j] } } : k \in 1..MaxCols }

\* one normalize of a fresh entry whose file holds conversion and
\* selectivity columns
InitColumns == Init /\ cls \in {"CatalystTests", "CleanData"} /\ entry = NewEntry

NextColumns ==
    \/ NormalizeCatalystTests(1, ColumnTables, FALSE)
    \/ NormalizeCleanData(1, ColumnTables, FALSE)

SpecColumns == InitColumns /\ [][NextColumns]_vars

-----------------------------------------------------------------------------
(* CatalyticReaction_NH3decomposition.normalize: the entry filled from an  *)
(* h5 file.  The pretreatment and the reactor set-up, which are written    *)
(* and never read here, are left out.                                      *)

EXT_H5 == <<".", "h", "5">>
N_NH3 == <<"N", "H", "3">>
N_ammonia == <<"a", "m", "m", "o", "n", "i", "a">>
N_molecular_hydrogen == <<"m", "o", "l", "e", "c", "u", "l", "a", "r", " ", "h", "y", "d", "r", "o", "g", "e", "n">>
N_molecular_nitrogen == <<"m", "o", "l", "e", "c", "u", "l", "a", "r", " ", "n", "i", "t", "r", "o", "g", "e", "n">>

\* the sequences for the results tree are thinned to arr[50::100] when the
\* file holds more than 50 measurement points
ThinFrom == 50
ThinStep == 100

\* arr[ThinFrom::ThinStep]
Thinned(arr) ==
    IF Len(arr) <= ThinFrom THEN <<>>
    ELSE [k \in 1..(((Len(arr) - ThinFrom - 1) \div ThinStep) + 1) |->
            arr[ThinFrom + 1 + (k - 1) * ThinStep]]

\* the datasets of the `NH3 Decomposition` table of a file with n points:
\* the conversion (with a NaN cell), the catalyst temperature in degrees
\* Celsius and the space-time yield
H5Conversion(n) == [i \in 1..n |-> IF i = 2 THEN NaN ELSE Num(i % 10)]
H5Temperature(n) == [i \in 1..n |-> Num(400 + (i % 3))]
H5Yield(n) == [i \in 1..n |-> Num(i % 4)]

\* lines 1276-1321 of the h5 normalize, once the temperature can be
\* written: the remaining writes, the reaction name, the sample and the figures
H5Finish(st, r2, temp_results) ==
    LET self == st.entry
        named == IF self.reaction_name = None
                 THEN [self EXCEPT !.reaction_name = Some("ammonia decomposition"),
                                   !.reaction_class = Some("cracking")]
                 ELSE self
        rc == [Get(r2.reaction_conditions) EXCEPT
                  !.temperature = Some(InKelvin(TemperatureUnit, temp_results))]
        r3 == [r2 EXCEPT !.reaction_conditions = Some(rc),
                         !.products = <<[name |-> N_molecular_nitrogen, selectivity |-> None,
                                         gas_concentration_out |-> None],
                                        [name |-> N_molecular_hydrogen, selectivity |-> None,
                                         gas_concentration_out |-> None]>>,
                         !.name = named.reaction_name, !.type = named.reaction_class]
        figs == <<Fig("figure Temp"), Fig("figure Conversion"), Fig("figure rates")>>
    IN With([st EXCEPT !.entry = [named EXCEPT !.figures = figs],
                       !.ar = SetReaction(st.ar, r3)], LAMBDA s1 :
       IF s1.entry.samples[1].reference # None
       THEN With(PopulateFromReference([ar |-> s1.ar, log |-> s1.log],
                                       Get(s1.entry.samples[1].reference)), LAMBDA r :
                 [s1 EXCEPT !.ar = r.ar, !.log = r.log])
       ELSE s1)

\* lines 1141-1276 of normalize on the opened file h5.  The assignment at
\* 1276 reads temp_results, bound only when there are more than ThinFrom
\* points, and then writes under reaction.reaction_conditions.
H5Normalize(e, self, ar, h5) ==
    LET n == h5.points
        cat_data ==
            [NewCatalyticReactionData EXCEPT
                !.temperature = Some(StoreTemp(TemperatureUnit, "degC", H5Temperature(n))),
                !.runs = Some(Linspace(n)),
                !.time_on_stream = Some(Linspace(n)),
                !.reactants_conversions =
                    <<[NewReactant(N_ammonia) EXCEPT
                          !.conversion = Some(NanToNum(H5Conversion(n)))]>>,
                !.rates = <<NewRates(N_molecular_hydrogen, NanToNum(H5Yield(n)))>>]
        feed ==
            [NewReactionConditions EXCEPT
                !.set_temperature =
                    Some(StoreTemp(SetTemperatureUnit, "degC", H5Temperature(n))),
                !.runs = Some(Linspace(n)),
                !.reagents = <<NewReagent(N_NH3, None)>>]
        conversion2 == IF n > ThinFrom THEN Thinned(H5Conversion(n)) ELSE H5Conversion(n)
        conversions2 ==
            <<[name |-> N_ammonia, conversion |-> Some(conversion2),
               gas_concentration_in |-> Some([i \in 1..Len(conversion2) |-> Num(100)]),
               gas_concentration_out |-> None]>>
        sample == SampleNormalize([NewSample EXCEPT !.name = Some("catalyst"),
                                                    !.lab_id = Some(Str(Num(h5.sample_id)))], e)
        self1 == [self EXCEPT !.results = Append(@, cat_data),
                              !.reaction_conditions = Some(feed),
                              !.reactor_filling = Some([catalyst_mass |-> Some(Num(h5.mass))]),
                              !.samples = Append(@, sample)]
    IN With(AddActivity(ar), LAMBDA ar1 :
       LET r1 == IF self1.results[1].pressure = None
                 THEN [Reaction(ar1) EXCEPT !.pressure = Some(<<Num(1)>>)]
                 ELSE Reaction(ar1)
           r2 == [r1 EXCEPT !.reactants = conversions2]
           st == [entry |-> self1, ar |-> SetReaction(ar1, r2), log |-> <<>>,
                  err |-> None, stage |-> "end"]
       IN IF n <= ThinFrom
          THEN [st EXCEPT !.err = Some("UnboundLocalError"), !.stage = "results"]
          ELSE IF r2.reaction_conditions = None
          THEN [st EXCEPT !.err = Some("AttributeError"), !.stage = "results"]
          ELSE H5Finish(st, r2, Thinned(Get(cat_data.temperature))))

\* the h5 files offered: the number of measurement points on both sides of
\* the thinning threshold and of one thinning step
PointCounts ==
    {0, 1, 3, ThinFrom, ThinFrom + 1, ThinFrom + ThinStep, ThinFrom + ThinStep + 1}

H5Files == [points : PointCounts, sample_id : {7}, mass : {33}]

\* h5 normalize with no data file: returns at once
NormalizeH5NoFile(max) ==
    /\ cls = "NH3decomposition"
    /\ calls < max
    /\ entry' = WithoutFile(entry)
    /\ call' = [NoCall EXCEPT !.status = "returned", !.stage = "no file"]
    /\ log' = <<>>
    /\ calls' = calls + 1
    /\ UNCHANGED <<cls, env, archive, locals>>

\* h5 normalize with a data file whose extension is not .h5
NormalizeH5Unsupported(max) ==
    /\ cls = "NH3decomposition"
    /\ calls < max
    /\ \E f \in FileNames :
        /\ SplitExt(f) # EXT_H5
        /\ entry' = [entry EXCEPT !.data_file = Some(f)]
        /\ call' = [NoCall EXCEPT !.data_file = Some(f), !.status = "raised",
                                  !.error = Some("ValueError"), !.stage = "format"]
    /\ log' = <<>>
    /\ calls' = calls + 1
    /\ UNCHANGED <<cls, env, archive, locals>>

\* h5 normalize on an .h5 file
NormalizeH5(max) ==
    /\ cls = "NH3decomposition"
    /\ calls < max
    /\ SplitExt(F_h5) = EXT_H5
    /\ \E h5 \in H5Files :
         \E r \in {H5Normalize(env, [entry EXCEPT !.data_file = Some(F_h5)], archive, h5)} :
            /\ entry' = r.entry
            /\ archive' = r.ar
            /\ log' = r.log
            /\ call' = [NoCall EXCEPT !.data_file = Some(F_h5),
                                      !.status = IF r.err = None THEN "done" ELSE "raised",
                                      !.error = r.err, !.stage = r.stage]
    /\ calls' = calls + 1
    /\ UNCHANGED <<cls, env, locals>>

\* an h5 entry normalized up to MaxCalls times; the data file is replaced
\* between the calls
InitH5 ==
    /\ cls = "NH3decomposition"
    /\ env \in RepeatEnvs
    /\ entry \in {NewEntry, FilledEntry}
    /\ archive = [results |-> None]
    /\ locals = NewLocals
    /\ call = NoCall
    /\ log = <<>>
    /\ calls = 0

NextH5 ==
    \/ NormalizeH5NoFile(MaxCalls)
    \/ NormalizeH5Unsupported(MaxCalls)
    \/ NormalizeH5(MaxCalls)

SpecH5 == InitH5 /\ [][NextH5]_vars

-----------------------------------------------------------------------------
(* NRVSpectroscopy.normalize *)

EXT_DAT == <<".", "d", "a", "t">>
SUF_NRVS == <<"_", "N", "R", "V", "S">>
SUF_EXP == SUF_NRVS \o <<"_", "e", "x", "p">> \o EXT_DAT
SUF_SIM == SUF_NRVS \o <<"_", "s", "i", "m">> \o EXT_DAT
F_exp == <<"s">> \o SUF_EXP
F_sim == <<"s">> \o SUF_SIM
F_dat == <<"s">> \o EXT_DAT

\* str.split(sep)[0]: the text before the first occurrence of sep
SplitFirst(s, sep) ==
    IF Contains(sep, s)
    THEN LET i == CHOOSE k \in 0..(Len(s) - Len(sep)) :
                    /\ SubSeq(s, k + 1, k + Len(sep)) = sep
                    /\ \A j \in 0..(k - 1) : SubSeq(s, j + 1, j + Len(sep)) # sep
         IN SubSeq(s, 1, i)
    ELSE s

MethodDefault == "Nuclear resonance vibrational spectroscopy (NRVS)"
MethodExperimental == "experimental nuclear resonance vibrational spectroscopy"
MethodSimulated == "simulated nuclear resonance vibrational spectroscopy"

NewSpectroscopy ==
    [data_file |-> None, method |-> MethodDefault, results |-> <<>>,
     samples |-> <<>>, instruments |-> <<>>, figures |-> <<>>]

\* the two columns of a .dat file, with zero to two rows
Spectra ==
    { [wavenumber |-> <<>>, intensity |-> <<>>],
      [wavenumber |-> Nums(<<100>>), intensity |-> Nums(<<3>>)],
      [wavenumber |-> Nums(<<100, 200>>), intensity |-> Nums(<<3, 0>>)] }

\* the body of NRVSpectroscopy.normalize on a .dat file; the sample and the
\* instrument references are resolved by lab_id unless the context is a client
NRVSNormalize(e, self, data) ==
    LET reference(name, lab_id) ==
            LET r == [NewSample EXCEPT !.name = Some(name), !.lab_id = Some(lab_id)]
            IN IF e.client THEN r ELSE SampleNormalize(r, e)
        sample_name == SplitFirst(Get(self.data_file), SUF_NRVS)
        self1 == [self EXCEPT !.results = <<data>>]
        self2 ==
            IF EndsWith(Get(self.data_file), SUF_EXP)
            THEN [self1 EXCEPT
                    !.samples = IF @ = <<>> THEN <<reference(sample_name, sample_name)>>
                                ELSE @,
                    !.method = MethodExperimental,
                    !.instruments = IF @ = <<>>
                                    THEN <<reference("NRVS setup", "NRVS-setup")>>
                                    ELSE @]
            ELSE IF EndsWith(Get(self.data_file), SUF_SIM)
            THEN [self1 EXCEPT !.method = MethodSimulated]
            ELSE self1
    IN [self2 EXCEPT !.figures = <<Fig("NRVS")>>]

\* NRVS normalize with no data file: returns at once
NormalizeNRVSNoFile(max) ==
    /\ cls = "NRVSpectroscopy"
    /\ calls < max
    /\ entry' = WithoutFile(entry)
    /\ call' = [NoCall EXCEPT !.status = "returned", !.stage = "no file"]
    /\ log' = <<>>
    /\ calls' = calls + 1
    /\ UNCHANGED <<cls, env, archive, locals>>

\* NRVS normalize with a data file whose extension is not .dat
NormalizeNRVSUnsupported(max) ==
    /\ cls = "NRVSpectroscopy"
    /\ calls < max
    /\ \E f \in FileNames :
        /\ SplitExt(f) # EXT_DAT
        /\ entry' = [entry EXCEPT !.data_file = Some(f)]
        /\ call' = [NoCall EXCEPT !.data_file = Some(f), !.status = "raised",
                                  !.error = Some("ValueError"), !.stage = "format"]
    /\ log' = <<>>
    /\ calls' = calls + 1
    /\ UNCHANGED <<cls, env, archive, locals>>

\* NRVS normalize on a .dat file
NormalizeNRVS(max) ==
    /\ cls = "NRVSpectroscopy"
    /\ calls < max
    /\ \E f \in {F_exp, F_sim, F_dat}, data \in Spectra :
        /\ SplitExt(f) = EXT_DAT
        /\ entry' = NRVSNormalize(env, [entry EXCEPT !.data_file = Some(f)], data)
        /\ call' = [NoCall EXCEPT !.data_file = Some(f), !.status = "done",
                                  !.stage = "end"]
    /\ log' = <<>>
    /\ calls' = calls + 1
    /\ UNCHANGED <<cls, env, archive, locals>>

InitNRVS ==
    /\ cls = "NRVSpectroscopy"
    /\ env \in RepeatEnvs
    /\ entry = NewSpectroscopy
    /\ archive = [results |-> None]
    /\ locals = NewLocals
    /\ call = NoCall
    /\ log = <<>>
    /\ calls = 0

NextNRVS ==
    \/ NormalizeNRVSNoFile(MaxCalls)
    \/ NormalizeNRVSUnsupported(MaxCalls)
    \/ NormalizeNRVS(MaxCalls)

\* every file-driven entry class, each normalized up to MaxCalls times
InitFiles == InitRepeat \/ InitH5 \/ InitNRVS

NextFiles == NextRepeat \/ NextH5 \/ NextNRVS

SpecFiles == InitFiles /\ [][NextFiles]_vars

\* names of reagents and products: aliases, their targets, names with
\* underscores, plain names and the names of the skip list
N_acetic_acid == <<"a", "c", "e", "t", "i", "c", "_", "a", "c", "i", "d">>
N_prop_2_en_1_ol == <<"p", "r", "o", "p", "_", "2", "_", "e", "n", "_", "1", "_", "o", "l">>
N_H2O == <<"H", "2", "O">>

SectionNames ==
    { N_CO, N_CO2, N_He, N_H2O, N_n_Butene, N_1_butene, N_MAN, N_maleic_anhydride,
      N_acetic_acid, N_prop_2_en_1_ol } \cup SkipNames

\* a Reagent section on its own, or a result record holding one Product
SectionEntries(c) ==
    IF c = "Reagent" THEN { NewReagent(n, None) : n \in SectionNames }
    ELSE { [NewCatalyticReactionData EXCEPT !.products = <<NewProduct(n)>>] :
              n \in SectionNames }

\* Reagent.normalize
NormalizeReagent(max) ==
    /\ cls = "Reagent"
    /\ calls < max
    /\ entry' = ReagentNormalize(entry, env.pubchem)
    /\ calls' = calls + 1
    /\ UNCHANGED <<cls, env, archive, locals, call, log>>

\* CatalyticReactionData_core.normalize
NormalizeResults(max) ==
    /\ cls = "Results"
    /\ calls < max
    /\ entry' = ResultsNormalize(entry, env.pubchem)
    /\ calls' = calls + 1
    /\ UNCHANGED <<cls, env, archive, locals, call, log>>

\* a section as created, normalized up to MaxCalls times
InitNames ==
    /\ cls \in {"Reagent", "Results"}
    /\ env \in [client : {FALSE}, pubchem : {"up", "partial", "down"}, ref : {None}]
    /\ entry \in SectionEntries(cls)
    /\ archive = [results |-> None]
    /\ locals = NewLocals
    /\ call = NoCall
    /\ log = <<>>
    /\ calls = 0

NextNames == NormalizeReagent(MaxCalls) \/ NormalizeResults(MaxCalls)

SpecNames == InitNames /\ [][NextNames]_vars

\* CatalyticReaction.normalize
NormalizeCatalyticReaction(max) ==
    /\ cls = "CatalyticReaction"
    /\ calls < max
    /\ \E r \in {CatalyticReactionNormalize(env, entry, archive)} :
          /\ entry' = r.entry
          /\ archive' = r.ar
          /\ log' = r.log
          /\ call' = [NoCall EXCEPT !.status = IF r.err = None THEN "done" ELSE "raised",
                                    !.error = r.err, !.stage = r.stage, !.prior = None]
          /\ locals' = [reactor_filling |-> r.reactor_filling,
                        conversions_results |-> r.conversions_results,
                        product_results |-> r.product_results]
    /\ calls' = calls + 1
    /\ UNCHANGED <<cls, env>>

\* one normalize of an entry that was filled by hand
InitManual ==
    /\ cls = "CatalyticReaction"
    /\ env \in ManualEnvs
    /\ entry \in ManualEntries
    /\ archive = [results |-> None]
    /\ locals = NewLocals
    /\ call = NoCall
    /\ log = <<>>
    /\ calls = 0

NextManual == NormalizeCatalyticReaction(1)

SpecManual == InitManual /\ [][NextManual]_vars

-----------------------------------------------------------------------------
(* Properties *)

\* the last call read a table and got past the column loop: the record is
\* stored on the entry
RecordBuilt ==
    /\ cls \in {"CatalystTests", "CleanData"}
    /\ call.stage \in {"projection", "results", "figures", "end"}

\* the table as the column loop sees it, the stored record and conditions
Table == DropNa(call.table)
Rec == entry.results[1]
Feed == Get(entry.reaction_conditions)

IsCO(name) == name \in {N_CO, N_carbon_monoxide}
COReactants == SelectSeq(Rec.reactants_conversions, LAMBDA r : IsCO(r.name))

HasNaN(o) == o # None /\ \E i \in 1..Len(Get(o)) : IsNaN(Get(o)[i])

\* C1: when the table has both an `x CO (%)` and an `x_r CO (%)` column, the
\* finished record has exactly one Reactant for CO, and that one carries both
\* the inlet fraction and the reactant-based conversion.
C1_OneReactantForCO ==
    (RecordBuilt /\ HasColumn(Table, Hdr3(P_x, N_CO, PCT))
                 /\ HasColumn(Table, Hdr3(P_x_r, N_CO, PCT)))
    => /\ Len(COReactants) = 1
       /\ COReactants[1].gas_concentration_in # None
       /\ COReactants[1].conversion_reactant_based # None

\* C2: for the columns step, x CO (%), temperature K, x_r CO (%) with three
\* rows the record has run index 0,1,2, exactly one Reactant for CO with an
\* inlet fraction and a reactant-based conversion of length 3, and a
\* temperature that, read in kelvin, is the input column.
C2_RunsScenario ==
    (RecordBuilt /\ call.table = T_runs)
    => /\ Rec.runs = Some(Nums(<<0, 1, 2>>))
       /\ Len(COReactants) = 1
       /\ COReactants[1].gas_concentration_in # None
       /\ Len(Get(COReactants[1].gas_concentration_in)) = 3
       /\ COReactants[1].conversion_reactant_based # None
       /\ Len(Get(COReactants[1].conversion_reactant_based)) = 3
       /\ Rec.temperature # None
       /\ InKelvin(TemperatureUnit, Get(Rec.temperature))
            = [i \in 1..3 |-> Num(100 * Column(T_runs, Hdr2(P_temperature, TOK_K))[i][1])]

\* C3: no numeric sequence stored in the finished record or its conditions
\* holds a NaN: every NaN cell of a stored column has become 0.
C3_NoNaNStored ==
    RecordBuilt
    => /\ ~HasNaN(Rec.runs) /\ ~HasNaN(Rec.time_on_stream) /\ ~HasNaN(Rec.temperature)
       /\ ~HasNaN(Rec.pressure) /\ ~HasNaN(Rec.c_balance)
       /\ ~HasNaN(Feed.runs) /\ ~HasNaN(Feed.time_on_stream)
       /\ ~HasNaN(Feed.set_temperature) /\ ~HasNaN(Feed.set_pressure)
       /\ ~HasNaN(Feed.set_total_flow_rate) /\ ~HasNaN(Feed.gas_hourly_space_velocity)
       /\ ~HasNaN(Feed.weight_hourly_space_velocity)
       /\ \A i \in 1..Len(Feed.reagents) : ~HasNaN(Feed.reagents[i].gas_concentration_in)
       /\ \A i \in 1..Len(Rec.reactants_conversions) :
            /\ ~HasNaN(Rec.reactants_conversions[i].gas_concentration_in)
            /\ ~HasNaN(Rec.reactants_conversions[i].gas_concentration_out)
            /\ ~HasNaN(Rec.reactants_conversions[i].conversion)
            /\ ~HasNaN(Rec.reactants_conversions[i].conversion_product_based)
            /\ ~HasNaN(Rec.reactants_conversions[i].conversion_reactant_based)
       /\ \A i \in 1..Len(Rec.products) :
            /\ ~HasNaN(Rec.products[i].gas_concentration_out)
            /\ ~HasNaN(Rec.products[i].selectivity)
       /\ \A i \in 1..Len(Rec.rates) : ~HasNaN(Rec.rates[i].reaction_rate)

\* the columns `x_r <species> (%)` of the table that have no `x <species> (%)`
UnmatchedXr ==
    { c \in 1..Len(Table) :
        LET sp == Split(Table[c].name, " ")
        IN /\ Len(sp) >= 3 /\ sp[1] = P_x_r /\ sp[3] = PCT
           /\ ~HasColumn(Table, Hdr3(P_x, sp[2], PCT)) }

\* C4: a table with an `x_r <species> (%)` column and no `x <species> (%)`
\* column never aborts the call in the column loop: the record is finished.
C4_UnmatchedXrFinishes ==
    (cls \in {"CatalystTests", "CleanData"} /\ call.stage \notin {"none", "no file", "format"}
        /\ UnmatchedXr # {})
    => RecordBuilt

\* the columns of a table whose header starts with the token x
XColumns(table) ==
    { c \in 1..Len(table) :
        LET sp == Split(table[c].name, " ") IN Len(sp) >= 2 /\ sp[1] = P_x }

Species(table, c) == Split(table[c].name, " ")[2]

\* C5 (as stated): every column of the file whose first token is x gives a
\* Reagent named by the header's second token, holding the column's values.
C5_ReagentNamedAsHeader ==
    RecordBuilt
    => \A c \in XColumns(call.table) :
          \E k \in 1..Len(Feed.reagents) :
             /\ Feed.reagents[k].name = Species(call.table, c)
             /\ Feed.reagents[k].gas_concentration_in = Some(call.table[c].data)

\* the name Reagent.normalize leaves on a reagent read from a header
Canonical(name) ==
    IF name = N_n_Butene THEN N_1_butene
    ELSE IF name = N_MAN THEN N_maleic_anhydride
    ELSE IF name \in SkipNames THEN name
    ELSE [i \in 1..Len(name) |-> IF name[i] = "_" THEN " " ELSE name[i]]

\* C5 (amended): every column left after the all-NaN columns are dropped
\* whose first token is x gives a Reagent named by the second token after
\* alias normalization, holding the column's cells as read, NaN included.
C5_ReagentNamedByAlias ==
    RecordBuilt
    => \A c \in XColumns(Table) :
          \E k \in 1..Len(Feed.reagents) :
             /\ Feed.reagents[k].name = Canonical(Species(Table, c))
             /\ Feed.reagents[k].gas_concentration_in = Some(Table[c].data)

C5_Witness ==
    /\ RecordBuilt
    /\ \E c \in XColumns(Table) :
          /\ Species(Table, c) = N_n_Butene
          /\ HasNaN(Some(Table[c].data))
    /\ \E k \in 1..Len(Feed.reagents) : Feed.reagents[k].name = N_1_butene

\* the mass columns of the table, and the single one when there is just one
MassColumns ==
    { c \in 1..Len(Table) :
        LET sp == Split(Table[c].name, " ") IN Len(sp) >= 2 /\ sp[1] = P_mass }
MassColumn == CHOOSE c \in MassColumns : TRUE
MassCell == Table[MassColumn].data[1]

\* C6: a table whose one mass column is `mass (mg)` sets the catalyst mass to
\* the column's first cell in milligrams (never a thousand times that), and
\* one whose mass column is `mass (g)` sets it to the first cell in grams,
\* that is a thousand times the cell in the milligrams the quantity is kept in.
C6_MassUnit ==
    (RecordBuilt /\ Cardinality(MassColumns) = 1)
    => /\ Table[MassColumn].name = Hdr2(P_mass, U_MG)
            => locals.reactor_filling.catalyst_mass = Some(MassCell)
       /\ Table[MassColumn].name = Hdr2(P_mass, TOK_G)
            => locals.reactor_filling.catalyst_mass =
                   Some(IF IsNaN(MassCell) THEN NaN ELSE Num(1000 * MassCell[1]))

C6_Witness ==
    /\ RecordBuilt /\ Cardinality(MassColumns) = 1
    /\ Table[MassColumn].name = Hdr2(P_mass, U_MG)
    /\ ~IsNaN(MassCell)
    /\ locals.reactor_filling.catalyst_mass = Some(MassCell)
    /\ entry.reactor_filling = Some(locals.reactor_filling)

\* the last call and the one before it read the same table
SameTableAgain ==
    /\ cls \in {"CatalystTests", "CleanData"}
    /\ call.stage \notin {"none", "no file", "format"}
    /\ call.prior = Some(call.table)

\* C7: a normalize that reads the table the call before it read leaves the
\* same record as that call did: the same result record (run index,
\* reactants, products, rates) and the same conditions (reagents included),
\* field by field and in the same order, and it ends the same way.
C7_SecondRunIdentical ==
    [][SameTableAgain'
         => /\ entry'.results = entry.results
            /\ entry'.reaction_conditions = entry.reaction_conditions
            /\ call'.error = call.error
            /\ call'.stage = call.stage]_vars

C7_Witness ==
    /\ SameTableAgain /\ RecordBuilt /\ calls = 2
    /\ Len(entry.results) = 1
    /\ Rec.reactants_conversions # <<>> /\ Rec.products # <<>>
    /\ Feed.reagents # <<>>

\* what the last call's file leaves on an entry that had nothing before
Fresh == NormalizeTable(cls, env, [NewEntry EXCEPT !.data_file = call.data_file],
                        [results |-> None], call.table).entry

\* C8 (as stated): after any calls the conditions, the result record, the
\* reactor filling and the samples are those the last file alone gives.
C8_LatestFileOnly ==
    RecordBuilt
    => /\ entry.reaction_conditions = Fresh.reaction_conditions
       /\ entry.results = Fresh.results
       /\ entry.reactor_filling = Fresh.reactor_filling
       /\ entry.samples = Fresh.samples

\* C8 (amended): after any calls the conditions and the result record are
\* those the last file alone gives and the sample of the last file is the
\* last of the entry's samples; a reactor filling, once set, is never replaced
\* by a later call.
C8_ConditionsAndResultsFromLatest ==
    /\ [](RecordBuilt
            => /\ entry.reaction_conditions = Fresh.reaction_conditions
               /\ entry.results = Fresh.results
               /\ Fresh.samples # <<>>
                    => /\ entry.samples # <<>>
                       /\ entry.samples[Len(entry.samples)] = Fresh.samples[1])
    /\ [][entry.reactor_filling # None
            => entry'.reactor_filling = entry.reactor_filling]_vars

C8_Witness ==
    /\ RecordBuilt /\ calls = 2
    /\ call.prior # None /\ call.prior # Some(call.table)
    /\ entry.results = Fresh.results
    /\ entry.reactor_filling # Fresh.reactor_filling
    /\ Len(entry.samples) = 2

\* C9: a call whose data file has an extension other than .csv and .xlsx
\* raises the unsupported-format error, leaves the entry's conditions, result
\* record, reactor filling and samples as they were, and leaves the results
\* tree as it was.
C9_UnsupportedBuildsNothing ==
    [][(calls' = calls + 1 /\ call'.data_file # None
          /\ SplitExt(Get(call'.data_file)) \notin {EXT_CSV, EXT_XLSX})
         => /\ call'.status = "raised"
            /\ call'.error = Some("ValueError")
            /\ entry'.reaction_conditions = entry.reaction_conditions
            /\ entry'.results = entry.results
            /\ entry'.reactor_filling = entry.reactor_filling
            /\ entry'.samples = entry.samples
            /\ archive' = archive]_vars

C9_Witness ==
    /\ calls = 2
    /\ call.data_file = Some(F_hidden)
    /\ call.status = "raised" /\ call.error = Some("ValueError")
    /\ entry.results # <<>>
    /\ archive.results # None

\* C10: a normalize of a catalyst sample always runs to completion, whatever
\* the search for referencing entries does.
C10_SearchFailureNotFatal ==
    cls = "CatalystSample" => call.status \in {"none", "done"}

\* the elements of the results material, and the referenced sample with the
\* invalid symbols taken out of its composition
Elements == archive.results[1].material[1].elements
HasMaterial == archive.results # None /\ archive.results[1].material # None
InvalidSymbols(ref) ==
    { k \in 1..Len(ref.elemental_composition) :
        ref.elemental_composition[k] \notin ChemicalSymbols }
ValidOnly(e) ==
    IF e.ref = None THEN e
    ELSE [e EXCEPT !.ref = Some([Get(e.ref) EXCEPT !.elemental_composition =
              SelectSeq(@, LAMBDA s : s \in ChemicalSymbols)])]
Logged(msg) == \E k \in 1..Len(log) : log[k] = msg

\* C11: when the referenced sample's composition has an invalid element
\* symbol, the results material lists no invalid symbol and no symbol twice,
\* the warning is logged, and the call ends exactly as it
\* ends for the same reference without the invalid entries: same status,
\* stage and error, same entry, same element list.
C11_InvalidSymbolSkipped ==
    /\ [](HasMaterial
            => /\ \A j \in 1..Len(Elements) : Elements[j] \in ChemicalSymbols
               /\ \A i, j \in 1..Len(Elements) : Elements[i] = Elements[j] => i = j
               /\ (env.ref # None /\ InvalidSymbols(Get(env.ref)) # {})
                    => Logged("invalid element symbol"))
    /\ [][(cls \in {"CatalystTests", "CleanData"} /\ calls' = calls + 1
             /\ call'.stage \notin {"no file", "format"})
            => \E r \in {NormalizeTable(cls, ValidOnly(env),
                             [entry EXCEPT !.data_file = call'.data_file],
                             archive, call'.table)} :
                  /\ r.err = call'.error /\ r.stage = call'.stage
                  /\ r.entry.results = entry'.results
                  /\ r.entry.reaction_conditions = entry'.reaction_conditions
                  /\ r.entry.figures = entry'.figures
                  /\ Len(r.entry.samples) = Len(entry'.samples)
                  /\ (r.ar.results # None /\ r.ar.results[1].material # None)
                       => r.ar.results[1].material[1].elements = Elements']_vars

C11_Witness ==
    /\ env.ref = Some(RefOdd)
    /\ HasMaterial /\ Elements = <<"Cu">>
    /\ Logged("invalid element symbol")
    /\ call.status = "done"

C13_NoTwoReactantsShareName ==
    RecordBuilt
    => \A i, j \in 1..Len(Rec.reactants_conversions) :
          Rec.reactants_conversions[i].name = Rec.reactants_conversions[j].name => i = j

\* the pairs <<p, r>> of columns `x_p <s> (%)` and, later, `x_r <s> (%)`
XpThenXr ==
    { pr \in (1..Len(Table)) \X (1..Len(Table)) :
        LET p == Split(Table[pr[1]].name, " ")
            r == Split(Table[pr[2]].name, " ")
        IN /\ pr[1] < pr[2]
           /\ Len(p) = 3 /\ p[1] = P_x_p /\ p[3] = PCT
           /\ Len(r) = 3 /\ r[1] = P_x_r /\ r[3] = PCT
           /\ p[2] = r[2] }

\* C14: for an `x_p <s> (%)` column followed by an `x_r <s> (%)` column the
\* record has an entry that keeps the product-based conversion of the first
\* column, has the reactant-based conversion and an inlet fraction from the
\* second, and whose conversion and conversion_type are those the second
\* column writes.
C14_LaterColumnWins ==
    RecordBuilt
    => \A pr \in XpThenXr :
          \E k \in 1..Len(Rec.reactants_conversions) :
             LET c == Rec.reactants_conversions[k]
             IN /\ c.conversion_product_based = Some(NanToNum(Table[pr[1]].data))
                /\ c.conversion_reactant_based = Some(NanToNum(Table[pr[2]].data))
                /\ c.gas_concentration_in # None
                /\ c.conversion = Some(NanToNum(Table[pr[2]].data))
                /\ c.conversion_type = Some("reactant-based conversion")

\* the species that have both a `y <p> (%)` and an `S_p <p> (%)` column and
\* no inlet column
OutletAndSelectivity ==
    { s \in { Species(Table, c) : c \in { c \in 1..Len(Table) :
                                            Len(Split(Table[c].name, " ")) = 3 } } :
        /\ HasColumn(Table, Hdr3(P_y, s, PCT))
        /\ HasColumn(Table, Hdr3(P_S_p, s, PCT))
        /\ ~HasColumn(Table, Hdr3(P_x, s, PCT)) /\ ~HasColumn(Table, Hdr2(P_x, s)) }

\* C15: in the finished record no two Products share a name, and a species
\* with a `y` and an `S_p` column that is no inlet reagent has one Product
\* with both the outlet concentration and the selectivity of its columns.
C15_NoTwoProductsShareName ==
    RecordBuilt
    => /\ \A i, j \in 1..Len(Rec.products) :
             Rec.products[i].name = Rec.products[j].name => i = j
       /\ \A s \in OutletAndSelectivity :
             \E k \in 1..Len(Rec.products) :
                /\ Rec.products[k].gas_concentration_out
                     = Some(NanToNum(Column(Table, Hdr3(P_y, s, PCT))))
                /\ Rec.products[k].selectivity
                     = Some(NanToNum(Column(Table, Hdr3(P_S_p, s, PCT))))

\* the `y <species> (%)` columns of the table, and whether the species of
\* column c is the second token of an x column before it
YColumns ==
    { c \in 1..Len(Table) :
        LET sp == Split(Table[c].name, " ")
        IN Len(sp) = 3 /\ sp[1] = P_y /\ sp[3] = PCT /\ Len(Table[c].data) >= 1 }
SeenAsReagent(c) ==
    \E b \in XColumns(Table) :
        b < c /\ Species(Table, b) = Species(Table, c) /\ Len(Table[b].data) >= 1

\* the inlet column a conversion from the outlet is computed with
InletOf(c) ==
    IF HasColumn(Table, Hdr3(P_x, Species(Table, c), PCT))
    THEN Column(Table, Hdr3(P_x, Species(Table, c), PCT))
    ELSE Column(Table, Hdr2(P_x, Species(Table, c)))

\* C16: in a table of x and y columns only, a `y <species> (%)` column whose
\* species is the second token of an earlier x column gives a Reactant with
\* that outlet concentration and the conversion (1 - outlet/inlet) * 100;
\* every other y column gives a Product with that outlet concentration and
\* no Reactant.
C16_OutletOfReagentIsReactant ==
    (cls \in {"CatalystTests", "CleanData"} /\ call.stage \notin {"none", "no file", "format"}
       /\ \A c \in 1..Len(Table) : Split(Table[c].name, " ")[1] \in {P_x, P_y})
    => \A c \in YColumns :
          LET out == Some(NanToNum(Table[c].data))
          IN IF SeenAsReagent(c)
             THEN /\ RecordBuilt
                  /\ \E k \in 1..Len(Rec.reactants_conversions) :
                        /\ Rec.reactants_conversions[k].gas_concentration_out = out
                        /\ Rec.reactants_conversions[k].conversion =
                              Some([i \in 1..Len(Table[c].data) |->
                                      ConversionFromOutlet(Table[c].data[i], InletOf(c)[i])])
                  /\ \A k \in 1..Len(Rec.products) : Rec.products[k].gas_concentration_out # out
             ELSE /\ RecordBuilt
                  /\ \E k \in 1..Len(Rec.products) : Rec.products[k].gas_concentration_out = out
                  /\ \A k \in 1..Len(Rec.reactants_conversions) :
                        Rec.reactants_conversions[k].gas_concentration_out # out

\* the columns whose header's first token is `step`
StepColumns ==
    { c \in 1..Len(Table) :
        Split(Table[c].name, " ")[1] = P_step /\ Len(Table[c].data) >= 1 }

\* C17: a column whose header's first token is `step` becomes the run index:
\* the call finishes the record, and the runs of the conditions and of the
\* results are that column's values.
C17_StepColumnIsRunIndex ==
    (cls \in {"CatalystTests", "CleanData"} /\ call.stage \notin {"none", "no file", "format"}
       /\ Cardinality(StepColumns) = 1
       /\ \A c \in 1..Len(Table) :
             Split(Table[c].name, " ")[1] \in {P_step, P_TOS, P_mass, P_Vflow})
    => \A c \in StepColumns :
          /\ RecordBuilt
          /\ Rec.runs = Some(Table[c].data)
          /\ Feed.runs = Some(Table[c].data)

\* the columns the loop scans: two or more tokens and at least one data point
ScannedColumns ==
    { c \in 1..Len(Table) :
        Len(Table[c].data) >= 1 /\ Len(Split(Table[c].name, " ")) >= 2 }

\* the largest number of data points of any scanned column
LargestColumn ==
    IF ScannedColumns = {} THEN 0
    ELSE CHOOSE n \in { Len(Table[c].data) : c \in ScannedColumns } :
            \A c \in ScannedColumns : Len(Table[c].data) <= n

\* the step branch was not taken by any column
NoStepColumnFound ==
    \A c \in ScannedColumns : Split(Table[c].name, " ")[1] # P_step

\* C18: when no step column was found, the run index of the record is
\* 0, 1, ..., N-1, N the largest number of data points of a scanned column.
C18_DefaultRunIndex ==
    (RecordBuilt /\ NoStepColumnFound)
    => /\ Rec.runs = Some([i \in 1..LargestColumn |-> Num(i - 1)])
       /\ Len(Rec.runs[1]) = LargestColumn

C18_Witness ==
    /\ RecordBuilt
    /\ NoStepColumnFound
    /\ LargestColumn = MaxRows
    /\ \E c \in ScannedColumns : Split(Table[c].name, " ")[1] = P_TOS
    /\ Rec.runs = Some([i \in 1..MaxRows |-> Num(i - 1)])

\* the scanned columns whose header's first token is `tok`
ColumnsOf(tok) == { c \in ScannedColumns : Split(Table[c].name, " ")[1] = tok }

\* the kelvin values (hundredths) the column c stands for: its values when
\* the unit token contains K, its values taken as degrees Celsius otherwise
KelvinOf(c) ==
    [i \in 1..Len(Table[c].data) |->
        Num(100 * NanToNum(Table[c].data)[i][1]
            + (IF Contains(TOK_K, Split(Table[c].name, " ")[2]) THEN 0
               ELSE CelsiusOffset))]

\* C19: the stored set_temperature and temperature, read in kelvin, are the
\* input values when the unit token contains K, and the input values taken
\* as degrees Celsius otherwise.
C19_TemperatureInKelvin ==
    RecordBuilt
    => /\ \A c \in ColumnsOf(P_set_temperature) :
            Cardinality(ColumnsOf(P_set_temperature)) = 1
            => /\ Feed.set_temperature # None
               /\ InKelvin(SetTemperatureUnit, Get(Feed.set_temperature)) = KelvinOf(c)
       /\ \A c \in ColumnsOf(P_temperature) :
            Cardinality(ColumnsOf(P_temperature)) = 1
            => /\ Rec.temperature # None
               /\ InKelvin(TemperatureUnit, Get(Rec.temperature)) = KelvinOf(c)

\* the columns of table t the loop skips
SkippedColumns(t) ==
    { c \in 1..Len(t) : Len(t[c].data) < 1 \/ Len(Split(t[c].name, " ")) < 2 }

\* table t with its column c taken out
WithoutColumn(t, c) == [i \in 1..(Len(t) - 1) |-> IF i < c THEN t[i] ELSE t[i + 1]]

\* the call just made ended as it ends on the same file without column c
SameAsWithout(c) ==
    \E r \in {NormalizeTable(cls, env, [entry EXCEPT !.data_file = call'.data_file],
                             archive, WithoutColumn(call'.table, c))} :
       /\ r.err = call'.error /\ r.stage = call'.stage
       /\ r.entry = entry'
       /\ r.ar = archive'

\* a call of a table class that read a table
TableCall ==
    /\ cls \in {"CatalystTests", "CleanData"}
    /\ calls' = calls + 1
    /\ call'.stage \notin {"no file", "format"}

\* the skipped columns that are read by name outside the loop's branches:
\* FHI-ID, sample_id and catalyst name the sample of the clean-data class,
\* and `step` is what the step branch of another header reads
ReadByName(t, c) ==
    \/ cls = "CleanData" /\ t[c].name \in {K_FHI_ID, K_sample_id, K_catalyst}
    \/ /\ t[c].name = P_step
       /\ \E k \in 1..Len(t) :
             Len(Split(t[k].name, " ")) >= 2 /\ Split(t[k].name, " ")[1] = P_step

\* C20 as stated: every skipped column leaves the record, the samples and
\* the results tree as if the column were absent.
C20_SkippedColumnAbsent ==
    [][TableCall => \A c \in SkippedColumns(call'.table) : SameAsWithout(c)]_vars

\* C20: a skipped column that is not read by name (FHI-ID, sample_id or
\* catalyst in the clean-data class, `step` beside a `step <x>` header)
\* leaves the record, the samples and the results tree, and the outcome of
\* the call, as if the column were absent.
C20_SkippedColumnAbsentUnlessReadByName ==
    [][TableCall
         => \A c \in SkippedColumns(call'.table) :
               ~ReadByName(call'.table, c) => SameAsWithout(c)]_vars

C20_Witness ==
    /\ RecordBuilt
    /\ Len(Table) = 2
    /\ Table[1].name = P_step /\ Table[1].data = <<Num(11)>>
    /\ ~ReadByName(Table, 1)
    /\ Rec.runs = Some(<<Num(0)>>)

\* the columns of table t with prefix x_p, x_r, y or S_p whose third token
\* is missing or is not "(%)"
UnmatchedColumns(t) ==
    { c \in 1..Len(t) :
        /\ Split(t[c].name, " ")[1] \in {P_x_p, P_x_r, P_y, P_S_p}
        /\ ~(Len(Split(t[c].name, " ")) >= 3 /\ Split(t[c].name, " ")[3] = PCT) }

\* the stages at which the record has been stored
Built(stage) == stage \in {"projection", "results", "figures", "end"}

\* C21: a column with prefix x_p, x_r, y or S_p without the third token
\* "(%)" leaves the reactant and product accumulators as they are without
\* the column: the scan ends the same way, and the reactants, products and
\* their projections of the record are the same.
C21_UnmatchedColumnLeavesAccumulators ==
    [][TableCall
         => \A c \in UnmatchedColumns(call'.table) :
              \E r \in {NormalizeTable(cls, env, [entry EXCEPT !.data_file = call'.data_file],
                                       archive, WithoutColumn(call'.table, c))} :
                 /\ (r.stage = "scan") = (call'.stage = "scan")
                 /\ call'.stage = "scan" => r.err = call'.error
                 /\ Built(r.stage) = Built(call'.stage)
                 /\ Built(call'.stage)
                      => /\ r.entry.results[1].reactants_conversions
                              = entry'.results[1].reactants_conversions
                         /\ r.entry.results[1].products = entry'.results[1].products
                         /\ r.conversions_results = locals'.conversions_results
                         /\ r.product_results = locals'.product_results]_vars

C21_Witness ==
    /\ RecordBuilt
    /\ Len(Table) = 2
    /\ Table[1].name = Hdr2(P_y, N_CO2)
    /\ Table[2].name = Hdr3(P_S_p, N_CO2, PCT)
    /\ Len(Rec.products) = 1
    /\ Rec.products[1].gas_concentration_out = None

\* the catalyst mass the scan found, in mg
ScannedMass == locals.reactor_filling.catalyst_mass

\* what is written of the space velocity under the reaction node
WrittenWhsv ==
    IF ~HasReaction(archive) THEN {}
    ELSE (IF Reaction(archive).weight_hourly_space_velocity = None THEN {}
          ELSE {Reaction(archive).weight_hourly_space_velocity})
         \cup (IF Reaction(archive).reaction_conditions = None THEN {}
               ELSE IF Get(Reaction(archive).reaction_conditions).weight_hourly_space_velocity
                          = None THEN {}
               ELSE {Get(Reaction(archive).reaction_conditions).weight_hourly_space_velocity})

\* C22: the total flow rate is found exactly when a Vflow column was
\* scanned, a catalyst mass only when a mass column was; the space velocity
\* of the conditions is set exactly when both were found and is then
\* flow / mass (mL/min over mg, kept in mL/(g*hour)); when one is missing
\* it is unset and nothing of it is in the results tree.
C22_WhsvWhenBothOperands ==
    RecordBuilt
    => /\ (Feed.set_total_flow_rate # None) = (ColumnsOf(P_Vflow) # {})
       /\ ScannedMass # None => ColumnsOf(P_mass) # {}
       /\ (Feed.weight_hourly_space_velocity # None)
            = (Feed.set_total_flow_rate # None /\ ScannedMass # None)
       /\ Feed.weight_hourly_space_velocity # None
            => /\ Len(Get(Feed.weight_hourly_space_velocity))
                    = Len(Get(Feed.set_total_flow_rate))
               /\ \A i \in 1..Len(Get(Feed.set_total_flow_rate)) :
                     Get(Feed.weight_hourly_space_velocity)[i]
                       = IF IsNaN(Get(ScannedMass)) THEN NaN
                         ELSE <<60000 * Get(Feed.set_total_flow_rate)[i][1],
                                Get(ScannedMass)[1]>>
       /\ Feed.weight_hourly_space_velocity = None => WrittenWhsv = {}
       /\ WrittenWhsv \subseteq {Feed.weight_hourly_space_velocity}

C22_Witness ==
    /\ RecordBuilt
    /\ ColumnsOf(P_Vflow) # {} /\ ColumnsOf(P_mass) # {}
    /\ Feed.weight_hourly_space_velocity # None
    /\ ~IsNaN(Get(Feed.weight_hourly_space_velocity)[1])
    /\ WrittenWhsv = {Feed.weight_hourly_space_velocity}

\* one operand missing: a flow without a mass
C22_WitnessUnset ==
    /\ RecordBuilt
    /\ call.status = "done"
    /\ ColumnsOf(P_Vflow) # {} /\ ColumnsOf(P_mass) = {}
    /\ Feed.weight_hourly_space_velocity = None
    /\ WrittenWhsv = {}

\* the Reagent or Product section being normalized
Section(e) == IF cls = "Reagent" THEN e ELSE e.products[1]

\* C23: normalization leaves on a reagent or product the name the alias
\* table gives (n-Butene to 1-butene, MAN to maleic anhydride, underscores
\* to spaces); a name of the skip list stays and the section gets no
\* resolved component; a second normalization changes nothing.
C23_AliasTableIdempotent ==
    [][calls' = calls + 1
         => /\ calls = 0 => Section(entry').name = Canonical(Section(entry).name)
            /\ Section(entry).name \in SkipNames => entry' = entry
            /\ (calls = 0 /\ Section(entry).name \in SkipNames)
                 => Section(entry').pure_component = None
            /\ Section(entry).name = N_n_Butene => Section(entry').name = N_1_butene
            /\ Section(entry).name = N_MAN => Section(entry').name = N_maleic_anhydride
            /\ \A i \in 1..Len(Section(entry').name) : Section(entry').name[i] # "_"
            /\ calls >= 1 => entry' = entry]_vars

C23_Witness ==
    /\ calls = 2
    /\ cls = "Results"
    /\ Section(entry).name = <<"p", "r", "o", "p", " ", "2", " ", "e", "n", " ", "1", " ", "o", "l">>
    /\ Section(entry).pure_component # None

\* the nodes under catalytic
CatalyticNodes == {"reaction", "catalyst", "catalyst_characterization", "catalyst_synthesis"}

\* tree b has every node of tree a, holding what it holds in a
Keeps(a, b) ==
    a.results # None
    => /\ b.results # None
       /\ b.results[1].material = a.results[1].material
       /\ a.results[1].properties # None
            => /\ b.results[1].properties # None
               /\ a.results[1].properties[1].catalytic # None
                    => /\ b.results[1].properties[1].catalytic # None
                       /\ \A f \in CatalyticNodes :
                            a.results[1].properties[1].catalytic[1][f] # None
                              => b.results[1].properties[1].catalytic[1][f]
                                   = a.results[1].properties[1].catalytic[1][f]

\* the path results, properties, catalytic, f exists in tree b
HasNode(b, f) ==
    /\ b.results # None
    /\ b.results[1].properties # None
    /\ b.results[1].properties[1].catalytic # None
    /\ b.results[1].properties[1].catalytic[1][f] # None

\* C24: on every tree a normalization leaves, add_activity and add_catalyst
\* give a tree with the whole path to reaction (or catalyst), keep every
\* node the tree had with what it held, and applied twice give what they
\* give applied once.
C24_HelpersCreateOnDemand ==
    /\ HasNode(AddActivity(archive), "reaction")
    /\ Keeps(archive, AddActivity(archive))
    /\ HasNode(archive, "reaction") => AddActivity(archive) = archive
    /\ AddActivity(AddActivity(archive)) = AddActivity(archive)
    /\ HasNode(AddCatalyst(archive), "catalyst")
    /\ Keeps(archive, AddCatalyst(archive))
    /\ HasNode(archive, "catalyst") => AddCatalyst(archive) = archive
    /\ AddCatalyst(AddCatalyst(archive)) = AddCatalyst(archive)
    /\ Keeps(AddActivity(archive), AddCatalyst(AddActivity(archive)))
    /\ Keeps(AddCatalyst(archive), AddActivity(AddCatalyst(archive)))
    /\ (calls >= 2 /\ call.status = "done" /\ cls \in {"CatalystTests", "CleanData"})
         => HasNode(archive, "reaction")

\* a tree two normalizations have written to, with reactants under reaction
\* and a material beside the properties
C24_Witness ==
    /\ calls = 2
    /\ HasNode(archive, "reaction")
    /\ Reaction(archive).reactants # <<>>
    /\ archive.results[1].material # None
    /\ AddActivity(archive) = archive
    /\ Reaction(AddCatalyst(archive)) = Reaction(archive)

\* the reactants written to the results tree
WrittenReactants == IF HasReaction(archive) THEN Reaction(archive).reactants ELSE <<>>

\* the name a conversion matched with reagent j is written under
Resolved(j) ==
    IF j.pure_component # None /\ Get(j.pure_component).iupac_name # None
    THEN Get(Get(j.pure_component).iupac_name)
    ELSE j.name

\* the conversions the scan of the table collected
ScannedConversions == Scan(Table).conversions

\* C25: the reactants in the results tree hold no inert species; each is
\* named as an inlet reagent resolves; and every conversion that is not
\* inert and has an inlet reagent of its name at projection is written,
\* under the reagent's IUPAC name when it has one, else under its own name.
C25_ReactantsProjected ==
    RecordBuilt
    => /\ \A n \in 1..Len(WrittenReactants) :
            /\ WrittenReactants[n].name \notin InertNames
            /\ \E k \in 1..Len(Feed.reagents) :
                  WrittenReactants[n].name = Resolved(Feed.reagents[k])
       /\ \A i \in 1..Len(ScannedConversions), k \in 1..Len(Feed.reagents) :
            (ScannedConversions[i].name \notin InertNames
               /\ ScannedConversions[i].name = Feed.reagents[k].name)
            => \E n \in 1..Len(WrittenReactants) :
                  /\ WrittenReactants[n].name = Resolved(Feed.reagents[k])
                  /\ WrittenReactants[n].conversion = ScannedConversions[i].conversion

\* what is written of condition `key` under the reaction node, directly or
\* under its reaction_conditions
WrittenCondition(key) ==
    IF ~HasReaction(archive) THEN {}
    ELSE (IF Reaction(archive)[key] = None THEN {} ELSE {Reaction(archive)[key]})
         \cup (IF Reaction(archive).reaction_conditions = None THEN {}
               ELSE IF Get(Reaction(archive).reaction_conditions)[key] = None THEN {}
               ELSE {Get(Reaction(archive).reaction_conditions)[key]})

\* the call came as far as the writes of the conditions
ReachedWrites == RecordBuilt /\ call.stage \in {"results", "figures", "end"}

\* C26: the temperature in the results tree is the measured temperature of
\* the record when it has one, else the set temperature of the conditions
\* when they have one, else none; the pressure likewise.
C26_MeasuredBeforeSet ==
    ReachedWrites
    => /\ WrittenCondition("temperature")
            = IF Rec.temperature # None
              THEN {Some(InKelvin(TemperatureUnit, Get(Rec.temperature)))}
              ELSE IF Feed.set_temperature # None
              THEN {Some(InKelvin(SetTemperatureUnit, Get(Feed.set_temperature)))}
              ELSE {}
       /\ WrittenCondition("pressure")
            = IF Rec.pressure # None THEN {Rec.pressure}
              ELSE IF Feed.set_pressure # None THEN {Feed.set_pressure}
              ELSE {}

\* the samples the h5 normalize made from the file
FileSamples == SelectSeq(entry.samples, LAMBDA s : s.name = Some("catalyst"))

\* C27: after every h5 normalization that read a file, the entry has one
\* result record and one sample made from the file.
C27_OneResultOneSample ==
    (cls = "NH3decomposition" /\ call.stage \in {"results", "end"})
    => /\ Len(entry.results) = 1
       /\ Len(FileSamples) = 1

\* C28: for every number of points the h5 normalize completes, and the
\* conversion and the temperature in the results tree are every 100th
\* point from index 50 when there are more than 50 points and all points
\* otherwise, so of equal length.
C28_ThinnedSequences ==
    (cls = "NH3decomposition" /\ call.stage \in {"results", "end"})
    => /\ call.status = "done"
       /\ HasReaction(archive)
       /\ Len(WrittenReactants) = 1
       /\ WrittenCondition("temperature") # {}
       /\ \A w \in WrittenCondition("temperature") :
            /\ Len(Get(w)) = Len(Get(WrittenReactants[1].conversion))
            /\ LET all == Get(entry.results[Len(entry.results)].temperature)
               IN Get(w) = InKelvin(TemperatureUnit,
                                    IF Len(all) > ThinFrom THEN Thinned(all) ELSE all)

\* C29: when a file-driven entry (CatalystTests, CatalyticReactionCleanData,
\* CatalyticReaction_NH3decomposition, NRVSpectroscopy) has no data file set,
\* its normalization returns and leaves every field of the entry as it was,
\* among them the reaction conditions, results, reactor filling, samples and
\* figures, and it writes nothing to the results tree of the archive
C29_NoFileLeavesEntry ==
    [][(calls' = calls + 1 /\ call'.stage = "no file")
        => /\ call'.status = "returned"
           /\ entry'.data_file = None
           /\ [entry' EXCEPT !.data_file = None] = [entry EXCEPT !.data_file = None]
           /\ archive' = archive]_vars

\* a second call finds no data file on an entry whose first call stored the
\* reaction conditions, a record and figures and wrote the reaction to the
\* results tree
C29_Witness ==
    /\ calls = 2
    /\ call.stage = "no file"
    /\ cls \in {"CatalystTests", "CleanData"}
    /\ entry.results # <<>>
    /\ entry.figures # <<>>
    /\ entry.reaction_conditions # None
    /\ HasNode(archive, "reaction")

====
